---- MODULE Spec2Model ----
(***************************************************************************)
(* ConvoX: the real-time delivery core (server/src/services/socketService, *)
(* controllers/messageController, controllers/groupController, models).    *)
(* The message store, the group store, the presence registry and the room  *)
(* tracker are the state; every socket handler and HTTP controller is an   *)
(* action.  Handlers are atomic unless a property is about their           *)
(* suspension points, in which case they are split at the store calls.     *)
(***************************************************************************)
EXTENDS Integers, Sequences, FiniteSets, TLC

VARIABLES
    now,           \* Date.now(), in milliseconds
    blockedUsers,  \* User.blockedUsers, per user
    messages,      \* the Message collection, in creation order (_id = index)
    groups,        \* the Group collection
    sockets,       \* io.sockets.sockets: every socket ever accepted (id = index)
    onlineUsers,   \* the onlineUsers map: userId -> socket id (0 = no entry)
    userRooms,     \* the userRooms map: userId -> set of group room names
    inflight,      \* handler invocations suspended at a store call
    emitted        \* what the last step sent out: events, then the HTTP response

vars == <<now, blockedUsers, messages, groups, sockets, onlineUsers,
          userRooms, inflight, emitted>>

-----------------------------------------------------------------------------
(* Bounds of the model. *)

\* messages the store may hold
MaxMessages == 2
\* messages the store may hold once groups write to it (system messages included)
MaxGroupMessages == 3
\* direct messages followed through their whole life (edits, deletions, the clock)
MaxFollowed == 1
\* sockets the server accepts over a run
MaxSockets == 4
\* handler invocations that may be suspended at the same time
MaxInflight == 2

-----------------------------------------------------------------------------
(* Identities and values. *)

Users == {"u1", "u2", "u3"}
\* ObjectId strings in ascending order, as Array.prototype.sort orders them
UserOrder == <<"u1", "u2", "u3">>
GroupIds == {"g1"}
NoUser == "none"
NoGroup == "nogroup"
NoTime == -1

Rank(u) == CHOOSE i \in 1..Len(UserOrder) : UserOrder[i] = u

\* the instants the clock is observed at: 0, 11h59m, 12h+1s
Instants == {0, 43140000, 43201000}

twelveHoursInMs == 12 * 60 * 60 * 1000

Tombstone == "This message was deleted"

\* texts a client sends; String.prototype.trim removes the blanks around one
Texts == {"hi", " yo "}
Trim(t) == IF t = " yo " THEN "yo" ELSE t

UserTypes == {"text", "image"}

Range(s) == {s[i] : i \in 1..Len(s)}

-----------------------------------------------------------------------------
(* models/message.ts *)

\* new Message({...}) with the schema's defaults, as saved at time `now`
NewMessage(sender, receiver, group, text, type, isRead) ==
    [sender |-> sender, receiver |-> receiver, group |-> group,
     text |-> text, messageType |-> type, isRead |-> isRead,
     isEdited |-> FALSE, editedAt |-> NoTime,
     deletedForSender |-> FALSE, deletedForReceiver |-> FALSE,
     deletedForEveryone |-> FALSE, deletedForUsers |-> <<>>,
     createdAt |-> now]

\* only a document with neither receiver nor group is refused
MessageValidUnlessNeither(m) == ~(m.receiver = NoUser /\ m.group = NoGroup)

\* MessageSchema.pre('validate'): exactly one of receiver and group
MessageValid(m) ==
    /\ ~(m.receiver = NoUser /\ m.group = NoGroup)
    /\ ~(m.receiver # NoUser /\ m.group # NoGroup)

MessageIds == 1..Len(messages)

-----------------------------------------------------------------------------
(* Events. *)

\* an event as a connection receives it: the socket, the event name and the
\* fields of the payload the properties read; users is the list of an
\* onlineUsers snapshot, empty in every other event
Event(to, ev, mid, isRead, user, group, error) ==
    [to |-> to, ev |-> ev, mid |-> mid, isRead |-> isRead, user |-> user,
     group |-> group, error |-> error, users |-> {}]

\* socket.emit / io.to(socketId).emit: reaches the socket while it is connected
Emit(sid, ev, mid, isRead, user, group, error) ==
    IF sid \in 1..Len(sockets) /\ sockets[sid].connected
    THEN <<Event(sid, ev, mid, isRead, user, group, error)>>
    ELSE <<>>

EmitMessage(sid, ev, mid, m) == Emit(sid, ev, mid, m.isRead, NoUser, m.group, "")
EmitError(sid, text) == Emit(sid, "error", 0, FALSE, NoUser, NoGroup, text)

\* Array.from(onlineUsers.values()).find(user => user.userId === id)
OnlineSocket(u) == IF u \in Users THEN onlineUsers[u] ELSE 0

\* io.to(onlineUser.socketId).emit(...) when the registry holds the user
EmitToUser(u, ev, mid, isRead, user, group) ==
    IF OnlineSocket(u) # 0
    THEN Emit(OnlineSocket(u), ev, mid, isRead, user, group, "")
    ELSE <<>>

\* res.status(...).json(...): the response of an HTTP request of user u
Respond(u, status) == <<Event(0, "response", 0, FALSE, u, NoGroup, status)>>

-----------------------------------------------------------------------------
(* The clock. *)

Tick ==
    /\ \E t \in Instants : t > now /\ now' = t
    /\ emitted' = <<>>
    /\ UNCHANGED <<blockedUsers, messages, groups, sockets, onlineUsers,
                   userRooms, inflight>>

-----------------------------------------------------------------------------
(* models/group.ts and the membership queries of the handlers. *)

NoLatest ==
    [messageId |-> 0, text |-> "", messageType |-> "text", sender |-> NoUser,
     createdAt |-> NoTime]

Latest(mid, m) ==
    [messageId |-> mid, text |-> m.text, messageType |-> m.messageType,
     sender |-> m.sender, createdAt |-> m.createdAt]

NoSuchGroup ==
    [exists |-> FALSE, createdBy |-> NoUser, members |-> <<>>,
     leftMembers |-> <<>>, removedMembers |-> <<>>, latestMessage |-> NoLatest]

\* a members[] element with the schema's defaults (joinedAt, lastReadAt: Date.now)
Member(u, role) ==
    [user |-> u, role |-> role, joinedAt |-> now, unreadCount |-> 0,
     lastReadAt |-> now]

MemberIds(grp) == {grp.members[i].user : i \in 1..Len(grp.members)}
LeftIds(grp) == {grp.leftMembers[i].user : i \in 1..Len(grp.leftMembers)}
RemovedIds(grp) == {grp.removedMembers[i].user : i \in 1..Len(grp.removedMembers)}

\* Group.findOne({_id, 'members.user': userId, isActive: true})
IsActiveMember(g, u) ==
    /\ g \in GroupIds
    /\ groups[g].exists
    /\ u \in MemberIds(groups[g])

\* Group.findOne({_id, 'removedMembers.user': userId, isActive: true})
WasRemoved(g, u) ==
    /\ g \in GroupIds
    /\ groups[g].exists
    /\ u \in RemovedIds(groups[g])

-----------------------------------------------------------------------------
(* Rooms (socket.io). *)

\* `chat_${[a, b].sort().join('_')}`
ChatRoom(a, b) ==
    IF Rank(a) <= Rank(b)
    THEN [kind |-> "chat", a |-> a, b |-> b]
    ELSE [kind |-> "chat", a |-> b, b |-> a]

\* `group_${groupId}`
GroupRoom(g) == [kind |-> "group", a |-> g, b |-> ""]

SocketSeq == [i \in 1..Len(sockets) |-> i]

\* the connected sockets joined to a room, in id order
RoomSockets(room) ==
    SelectSeq(SocketSeq, LAMBDA i : sockets[i].connected /\ room \in sockets[i].rooms)

\* io.to(room).emit(ev, message)
EmitToRoom(room, ev, mid, m) ==
    [k \in 1..Len(RoomSockets(room)) |->
        Event(RoomSockets(room)[k], ev, mid, m.isRead, NoUser, m.group, "")]

\* an inbound event is handled for a socket that is connected
Connected(s) == s \in 1..Len(sockets) /\ sockets[s].connected

-----------------------------------------------------------------------------
(* Blocking: controllers/authController blockUser, unblockUser. *)

BlockUser(u, v) ==
    /\ u # v
    /\ v \notin blockedUsers[u]
    /\ blockedUsers' = [blockedUsers EXCEPT ![u] = @ \cup {v}]
    /\ emitted' = Respond(u, "200")
    /\ UNCHANGED <<now, messages, groups, sockets, onlineUsers, userRooms, inflight>>

UnblockUser(u, v) ==
    /\ v \in blockedUsers[u]
    /\ blockedUsers' = [blockedUsers EXCEPT ![u] = @ \ {v}]
    /\ emitted' = Respond(u, "200")
    /\ UNCHANGED <<now, messages, groups, sockets, onlineUsers, userRooms, inflight>>

-----------------------------------------------------------------------------
(* socketService.ts: handleSendMessage *)

\* receiver.blockedUsers.includes(senderObjectId)
BlockedByReceiver(a, r) == a \in blockedUsers[r]
\* sender.blockedUsers.includes(receiverObjectId)
BlockedBySender(a, r) == r \in blockedUsers[a]

\* only the receiver's block list is consulted
SuppressedByReceiverOnly(a, r) == BlockedByReceiver(a, r)

\* the two early returns of handleSendMessage
SendSuppressed(a, r) == BlockedByReceiver(a, r) \/ BlockedBySender(a, r)

\* the receiver is online, whichever room its socket is in
ReceiverOnline(a, r) ==
    /\ OnlineSocket(r) # 0
    /\ sockets[OnlineSocket(r)].connected

\* the receiver is online and its registered socket is in the room of the pair
ReceiverViewing(a, r) ==
    /\ OnlineSocket(r) # 0
    /\ sockets[OnlineSocket(r)].connected
    /\ ChatRoom(a, r) \in sockets[OnlineSocket(r)].rooms

\* the text stored for a message of the given kind
StoredText(type, text) == IF type = "text" THEN text ELSE ""

\* the row is saved before the block lists are consulted
StoreBeforeBlockCheck(a, r, text, type) ==
    Append(messages,
           NewMessage(a, r, NoGroup, StoredText(type, text), type,
                      ReceiverViewing(a, r)))

\* the store after a sendMessage of a to r
StoreAfterSend(a, r, text, type) ==
    IF SendSuppressed(a, r)
    THEN messages
    ELSE Append(messages,
                NewMessage(a, r, NoGroup, StoredText(type, text), type,
                           ReceiverViewing(a, r)))

\* the confirmation goes out first, the receiver's copy after it
SendEventsSenderFirst(s, a, r, mid, m) ==
    Emit(s, "messageSent", mid, m.isRead, NoUser, NoGroup, "")
    \o EmitToUser(r, "receiveMessage", mid, m.isRead, NoUser, NoGroup)
    \o (IF m.isRead /\ OnlineSocket(r) # 0
        THEN Emit(s, "messagesRead", 0, FALSE, r, NoGroup, "")
        ELSE <<>>)

\* the events of a sendMessage that was not suppressed, in emission order
SendEvents(s, a, r, mid, m) ==
    EmitToUser(r, "receiveMessage", mid, m.isRead, NoUser, NoGroup)
    \o Emit(s, "messageSent", mid, m.isRead, NoUser, NoGroup, "")
    \o (IF m.isRead /\ OnlineSocket(r) # 0
        THEN Emit(s, "messagesRead", 0, FALSE, r, NoGroup, "")
        ELSE <<>>)

HandleSendMessage(s, r, text, type) ==
    /\ Connected(s)
    /\ LET a == sockets[s].userId IN
       /\ r \in Users
       /\ SendSuppressed(a, r) \/ Len(messages) < MaxMessages
       /\ messages' = StoreAfterSend(a, r, text, type)
       /\ IF SendSuppressed(a, r)
          THEN /\ emitted' = Emit(s, "messageSent", 0, FALSE, NoUser, NoGroup, "")
          ELSE /\ emitted' = SendEvents(s, a, r, Len(messages'), messages'[Len(messages')])
    /\ UNCHANGED <<now, blockedUsers, groups, sockets, onlineUsers, userRooms, inflight>>

(* socketService.ts: handleMarkMessagesAsRead *)

\* the update takes the messages of the pair in both directions
MarkedReadBothWays(senderId, receiverId) ==
    [i \in 1..Len(messages) |->
        IF {messages[i].sender, messages[i].receiver} = {senderId, receiverId}
        THEN [messages[i] EXCEPT !.isRead = TRUE]
        ELSE messages[i]]

\* Message.updateMany({sender, receiver, isRead: false}, {isRead: true})
MarkedRead(senderId, receiverId) ==
    [i \in 1..Len(messages) |->
        IF messages[i].sender = senderId /\ messages[i].receiver = receiverId
        THEN [messages[i] EXCEPT !.isRead = TRUE]
        ELSE messages[i]]

HandleMarkMessagesAsRead(s, senderId) ==
    /\ Connected(s)
    /\ senderId \in Users
    /\ messages' = MarkedRead(senderId, sockets[s].userId)
    /\ emitted' = EmitToUser(senderId, "messagesRead", 0, FALSE, senderId, NoGroup)
    /\ UNCHANGED <<now, blockedUsers, groups, sockets, onlineUsers, userRooms, inflight>>

(* messageController: markMessagesAsRead, the same update over HTTP *)

MarkMessagesAsRead(u, senderId) ==
    /\ senderId \in Users
    /\ messages' = MarkedRead(senderId, u)
    /\ emitted' = Respond(u, "200")
    /\ UNCHANGED <<now, blockedUsers, groups, sockets, onlineUsers, userRooms, inflight>>

(* socketService.ts: handleJoinChat, handleLeaveChat *)

HandleJoinChat(s, receiverId) ==
    /\ Connected(s)
    /\ receiverId \in Users
    /\ sockets' = [sockets EXCEPT ![s].rooms = @ \cup {ChatRoom(sockets[s].userId, receiverId)}]
    /\ emitted' = <<>>
    /\ UNCHANGED <<now, blockedUsers, messages, groups, onlineUsers, userRooms, inflight>>

HandleLeaveChat(s, receiverId) ==
    /\ Connected(s)
    /\ receiverId \in Users
    /\ sockets' = [sockets EXCEPT ![s].rooms = @ \ {ChatRoom(sockets[s].userId, receiverId)}]
    /\ emitted' = <<>>
    /\ UNCHANGED <<now, blockedUsers, messages, groups, onlineUsers, userRooms, inflight>>

-----------------------------------------------------------------------------
(* The 12-hour window of edit and delete-for-everyone. *)

\* the window taken in seconds while Date.now() counts milliseconds
TooOldInSeconds(m) == now - m.createdAt > 12 * 60 * 60

\* messageAge > twelveHoursInMs, messageAge = Date.now() - createdAt
TooOld(m) == now - m.createdAt > twelveHoursInMs

\* Message.findOne({_id: messageObjectId, sender: userObjectId})
OwnMessage(u, mid) == mid \in MessageIds /\ messages[mid].sender = u

-----------------------------------------------------------------------------
(* socketService.ts: handleEditMessage *)

\* message.text = data.text.trim(); isEdited = true; editedAt = new Date()
Edited(m, text) ==
    [m EXCEPT !.text = Trim(text), !.isEdited = TRUE, !.editedAt = now]

\* the kind of the message is not looked at
EditOutcomeAnyKind(u, mid) ==
    IF ~OwnMessage(u, mid) THEN "Message not found or you don't have permission to edit it"
    ELSE IF TooOld(messages[mid]) THEN "Cannot edit message older than 12 hours"
    ELSE "ok"

\* the checks of handleEditMessage, in the order the handler makes them
EditOutcome(u, mid) ==
    IF ~OwnMessage(u, mid) THEN "Message not found or you don't have permission to edit it"
    ELSE IF TooOld(messages[mid]) THEN "Cannot edit message older than 12 hours"
    ELSE IF messages[mid].messageType # "text" THEN "Only text messages can be edited"
    ELSE "ok"

\* messageEdited: to the caller, to the receiver if online, to the group room
EditEvents(s, mid, m) ==
    EmitMessage(s, "messageEdited", mid, m)
    \o (IF m.receiver # NoUser
        THEN EmitToUser(m.receiver, "messageEdited", mid, m.isRead, NoUser, m.group)
        ELSE <<>>)
    \o (IF m.group # NoGroup
        THEN EmitToRoom(GroupRoom(m.group), "messageEdited", mid, m)
        ELSE <<>>)

HandleEditMessage(s, mid, text) ==
    /\ Connected(s)
    /\ LET u == sockets[s].userId
           outcome == EditOutcome(u, mid) IN
       /\ IF outcome = "ok"
          THEN /\ messages' = [messages EXCEPT ![mid] = Edited(@, text)]
               /\ emitted' = EditEvents(s, mid, messages'[mid])
          ELSE /\ messages' = messages
               /\ emitted' = EmitError(s, outcome)
    /\ UNCHANGED <<now, blockedUsers, groups, sockets, onlineUsers, userRooms, inflight>>

(* messageController: editMessage (PUT /edit/:messageId) *)

HttpEditOutcome(u, mid, text) ==
    IF Trim(text) = "" THEN "400 Text cannot be empty"
    ELSE IF ~OwnMessage(u, mid)
         THEN "404 Message not found or you don't have permission to edit it"
    ELSE IF TooOld(messages[mid]) THEN "400 Cannot edit message older than 12 hours"
    ELSE IF messages[mid].messageType # "text" THEN "400 Only text messages can be edited"
    ELSE "200"

EditMessage(u, mid, text) ==
    /\ LET outcome == HttpEditOutcome(u, mid, text) IN
       /\ messages' = IF outcome = "200"
                      THEN [messages EXCEPT ![mid] = Edited(@, text)]
                      ELSE messages
       /\ emitted' = Respond(u, outcome)
    /\ UNCHANGED <<now, blockedUsers, groups, sockets, onlineUsers, userRooms, inflight>>

-----------------------------------------------------------------------------
(* socketService.ts: handleDeleteMessageForMe *)

\* the id is pushed whether or not the list holds it
WithDeletedForUserAgain(m, u) == [m EXCEPT !.deletedForUsers = Append(@, u)]

\* deletedForUsers.includes(userObjectId), then push
WithDeletedForUser(m, u) ==
    IF u \in Range(m.deletedForUsers)
    THEN m
    ELSE [m EXCEPT !.deletedForUsers = Append(@, u)]

\* handleGroupMessageDeleteForMe: the flag the caller's role selects
GroupDeletedForMe(m, u) ==
    IF m.sender = u
    THEN [m EXCEPT !.deletedForSender = TRUE]
    ELSE WithDeletedForUser(m, u)

\* both flags are set, whoever calls
NormalDeletedForBoth(m, u) ==
    [m EXCEPT !.deletedForSender = TRUE, !.deletedForReceiver = TRUE]

\* handleNormalMessageDeleteForMe: the flag the caller's role selects
NormalDeletedForMe(m, u) ==
    IF m.sender = u
    THEN [m EXCEPT !.deletedForSender = TRUE]
    ELSE [m EXCEPT !.deletedForReceiver = TRUE]

DeleteForMeOutcome(u, mid) ==
    IF mid \notin MessageIds THEN "Message not found"
    ELSE IF messages[mid].group # NoGroup
         THEN IF IsActiveMember(messages[mid].group, u) THEN "ok"
              ELSE "You don't have permission to delete this message"
         ELSE IF messages[mid].sender = u \/ messages[mid].receiver = u THEN "ok"
              ELSE "You don't have permission to delete this message"

\* the deletion is announced to the other party and to the group room as well
DeleteForMeBroadcast(s, mid, m) ==
    EmitMessage(s, "messageDeletedForMe", mid, m)
    \o (IF m.group # NoGroup
        THEN EmitToRoom(GroupRoom(m.group), "messageDeletedForMe", mid, m)
        ELSE EmitToUser(m.sender, "messageDeletedForMe", mid, m.isRead, NoUser, NoGroup)
             \o EmitToUser(m.receiver, "messageDeletedForMe", mid, m.isRead, NoUser, NoGroup))

\* socket.emit("messageDeletedForMe", message): to the calling socket only
DeleteForMeEvents(s, mid, m) == EmitMessage(s, "messageDeletedForMe", mid, m)

HandleDeleteMessageForMe(s, mid) ==
    /\ Connected(s)
    /\ LET u == sockets[s].userId
           outcome == DeleteForMeOutcome(u, mid) IN
       /\ IF outcome = "ok"
          THEN /\ messages' = [messages EXCEPT ![mid] =
                                  IF @.group # NoGroup
                                  THEN GroupDeletedForMe(@, u)
                                  ELSE NormalDeletedForMe(@, u)]
               /\ emitted' = DeleteForMeEvents(s, mid, messages'[mid])
          ELSE /\ messages' = messages
               /\ emitted' = EmitError(s, outcome)
    /\ UNCHANGED <<now, blockedUsers, groups, sockets, onlineUsers, userRooms, inflight>>

(* messageController: deleteMessageForMe (DELETE /delete-for-me/:messageId) *)

HttpDeleteForMeOutcome(u, mid) ==
    IF mid \notin MessageIds THEN "404 Message not found"
    ELSE IF \/ messages[mid].sender = u
            \/ messages[mid].receiver = u
            \/ (messages[mid].group # NoGroup /\ IsActiveMember(messages[mid].group, u))
         THEN "200"
         ELSE "403 You don't have permission to delete this message"

\* isSender, else isReceiver, else isGroupMember
HttpDeletedForMe(m, u) ==
    IF m.sender = u THEN [m EXCEPT !.deletedForSender = TRUE]
    ELSE IF m.receiver = u THEN [m EXCEPT !.deletedForReceiver = TRUE]
    ELSE WithDeletedForUser(m, u)

DeleteMessageForMe(u, mid) ==
    /\ LET outcome == HttpDeleteForMeOutcome(u, mid) IN
       /\ messages' = IF outcome = "200"
                      THEN [messages EXCEPT ![mid] = HttpDeletedForMe(@, u)]
                      ELSE messages
       /\ emitted' = Respond(u, outcome)
    /\ UNCHANGED <<now, blockedUsers, groups, sockets, onlineUsers, userRooms, inflight>>

(* messageController: getConversations, the query for the caller's messages *)

\* the query leaves out the messages deleted for everyone
ConversationMessagesLive(u) ==
    {mid \in MessageIds :
        /\ messages[mid].receiver # NoUser
        /\ messages[mid].sender = u \/ messages[mid].receiver = u
        /\ messages[mid].sender # u \/ ~messages[mid].deletedForSender
        /\ messages[mid].receiver # u \/ ~messages[mid].deletedForReceiver
        /\ ~messages[mid].deletedForEveryone}

\* the direct messages the query returns for user u: u is sender or receiver,
\* and the flag of u's own side is not set
ConversationMessages(u) ==
    {mid \in MessageIds :
        /\ messages[mid].receiver # NoUser
        /\ messages[mid].sender = u \/ messages[mid].receiver = u
        /\ messages[mid].sender # u \/ ~messages[mid].deletedForSender
        /\ messages[mid].receiver # u \/ ~messages[mid].deletedForReceiver}

\* .sort({createdAt: 1}): the ids of S by ascending createdAt, messages with
\* the same stamp in the order of the store
RECURSIVE SortedByCreatedAt(_)
SortedByCreatedAt(S) ==
    IF S = {} THEN <<>>
    ELSE LET first == CHOOSE m \in S : \A o \in S :
                          \/ messages[m].createdAt < messages[o].createdAt
                          \/ messages[m].createdAt = messages[o].createdAt /\ m <= o
         IN <<first>> \o SortedByCreatedAt(S \ {first})

\* conversationMap.set(otherUserId, {..., lastMessage: null, unreadCount: 0})
NewConversation == [lastMessage |-> 0, unreadCount |-> 0]

\* the entry of a partner after one more message of the loop: the message
\* replaces lastMessage when there is none or it is newer, and counts as
\* unread when the caller is its receiver and isRead is false
ConversationAfter(u, conv, mid) ==
    [lastMessage |-> IF \/ conv.lastMessage = 0
                        \/ messages[mid].createdAt > messages[conv.lastMessage].createdAt
                     THEN mid
                     ELSE conv.lastMessage,
     unreadCount |-> IF messages[mid].receiver = u /\ ~messages[mid].isRead
                     THEN conv.unreadCount + 1
                     ELSE conv.unreadCount]

\* messages.forEach(...): the map from partner to conversation entry
RECURSIVE ConversationMap(_, _, _)
ConversationMap(u, list, map) ==
    IF list = <<>> THEN map
    ELSE LET mid == Head(list)
             otherUserId == IF messages[mid].sender = u
                            THEN messages[mid].receiver
                            ELSE messages[mid].sender
             conv == IF otherUserId \in DOMAIN map THEN map[otherUserId] ELSE NewConversation
         IN ConversationMap(u, Tail(list),
                [x \in DOMAIN map \cup {otherUserId} |->
                    IF x = otherUserId THEN ConversationAfter(u, conv, mid) ELSE map[x]])

\* the conversations returned to user u, by partner
GetConversations(u) ==
    ConversationMap(u, SortedByCreatedAt(ConversationMessages(u)), [x \in {} |-> NewConversation])

-----------------------------------------------------------------------------
(* socketService.ts: handleDeleteMessageForEveryone *)

\* text = "This message was deleted"; deletedForEveryone = true; isEdited = true
Tombstoned(m) ==
    [m EXCEPT !.text = Tombstone, !.deletedForEveryone = TRUE, !.isEdited = TRUE]

DeleteForEveryoneOutcome(u, mid) ==
    IF ~OwnMessage(u, mid) THEN "Message not found or you don't have permission to delete it"
    ELSE IF TooOld(messages[mid]) THEN "Cannot delete message older than 12 hours"
    ELSE "ok"

\* handleGroupMessageDeleteForEveryone: the cache follows when it names the message
CacheAfterTombstone(grp, mid, m) ==
    IF grp.exists /\ grp.latestMessage.messageId = mid
    THEN [grp EXCEPT !.latestMessage = Latest(mid, m)]
    ELSE grp

\* the group room for a group message; sender and receiver, if online, otherwise
DeleteForEveryoneEvents(mid, m) ==
    IF m.group # NoGroup
    THEN EmitToRoom(GroupRoom(m.group), "messageDeletedForEveryone", mid, m)
    ELSE EmitToUser(m.sender, "messageDeletedForEveryone", mid, m.isRead, NoUser, NoGroup)
         \o EmitToUser(m.receiver, "messageDeletedForEveryone", mid, m.isRead, NoUser, NoGroup)

HandleDeleteMessageForEveryone(s, mid) ==
    /\ Connected(s)
    /\ LET u == sockets[s].userId
           outcome == DeleteForEveryoneOutcome(u, mid) IN
       /\ IF outcome = "ok"
          THEN /\ messages' = [messages EXCEPT ![mid] = Tombstoned(@)]
               /\ groups' = IF messages[mid].group # NoGroup
                            THEN [groups EXCEPT ![messages[mid].group] =
                                     CacheAfterTombstone(@, mid, messages'[mid])]
                            ELSE groups
               /\ emitted' = DeleteForEveryoneEvents(mid, messages'[mid])
          ELSE /\ messages' = messages
               /\ groups' = groups
               /\ emitted' = EmitError(s, outcome)
    /\ UNCHANGED <<now, blockedUsers, sockets, onlineUsers, userRooms, inflight>>

(* messageController: deleteMessageForEveryone (DELETE /delete-for-everyone/:messageId) *)

\* message.deletedForEveryone = true; deletedAt = new Date(); nothing else
HttpTombstoned(m) == [m EXCEPT !.deletedForEveryone = TRUE]

HttpDeleteForEveryoneOutcome(u, mid) ==
    IF ~OwnMessage(u, mid)
    THEN "404 Message not found or you don't have permission to delete it"
    ELSE IF TooOld(messages[mid]) THEN "400 Cannot delete message older than 12 hours"
    ELSE "200"

DeleteMessageForEveryone(u, mid) ==
    /\ LET outcome == HttpDeleteForEveryoneOutcome(u, mid) IN
       /\ messages' = IF outcome = "200"
                      THEN [messages EXCEPT ![mid] = HttpTombstoned(@)]
                      ELSE messages
       /\ emitted' = Respond(u, outcome)
    /\ UNCHANGED <<now, blockedUsers, groups, sockets, onlineUsers, userRooms, inflight>>

-----------------------------------------------------------------------------
(* groupController: createGroup (POST /groups) *)

\* [creator as admin, ...memberIds as member], in the order given
InitialMembers(u, memberIds) ==
    <<Member(u, "admin")>> \o [i \in 1..Len(memberIds) |-> Member(memberIds[i], "member")]

\* some invited user is blocked by the creator or blocks the creator
InviteBlocked(u, memberIds) ==
    \E i \in 1..Len(memberIds) :
        memberIds[i] \in blockedUsers[u] \/ u \in blockedUsers[memberIds[i]]

\* emitGroupCreated: groupCreated to every member that is online
GroupCreatedEvents(g, members) ==
    IF members = <<>> THEN <<>>
    ELSE LET F[k \in 0..Len(members)] ==
                 IF k = 0 THEN <<>>
                 ELSE F[k - 1] \o EmitToUser(members[k].user, "groupCreated", 0, FALSE, NoUser, g)
         IN F[Len(members)]

\* the invitation lists a client sends: other users, each once
Invitations(u) ==
    {ids \in UNION {[1..n -> Users \ {u}] : n \in 0..2} :
        \A i, j \in 1..Len(ids) : i < j => Rank(ids[i]) < Rank(ids[j])}

\* the system message's text, `Group created by ${username}`, is written
\* "Group created"
CreateGroup(u, g, memberIds) ==
    /\ ~groups[g].exists
    /\ IF InviteBlocked(u, memberIds)
       THEN /\ UNCHANGED <<messages, groups>>
            /\ emitted' = Respond(u, "400 Cannot create group with blocked users")
       ELSE /\ Len(messages) < MaxGroupMessages
            /\ messages' = Append(messages,
                                  NewMessage(u, NoUser, g, "Group created", "system", FALSE))
            /\ groups' = [groups EXCEPT ![g] =
                             [exists |-> TRUE, createdBy |-> u,
                              members |-> InitialMembers(u, memberIds),
                              leftMembers |-> <<>>, removedMembers |-> <<>>,
                              latestMessage |-> Latest(Len(messages'), messages'[Len(messages')])]]
            /\ emitted' = GroupCreatedEvents(g, InitialMembers(u, memberIds))
                           \o Respond(u, "201")
    /\ UNCHANGED <<now, blockedUsers, sockets, onlineUsers, userRooms, inflight>>

-----------------------------------------------------------------------------
(* socketService.ts: handleSendGroupMessage, split at its store calls:     *)
(* the membership lookup, message.save(), Group.updateOne() and the        *)
(* synchronous fan-out that follows it.                                    *)

\* the document a handler that holds none has in hand
NoDocument ==
    [NewMessage(NoUser, NoUser, NoGroup, "", "text", FALSE) EXCEPT !.createdAt = NoTime]

Idle ==
    [pc |-> "idle", sock |-> 0, user |-> NoUser, group |-> NoGroup,
     members |-> <<>>, blockedMembers |-> {}, blockingMembers |-> {},
     text |-> "", type |-> "text", mid |-> 0, doc |-> NoDocument, paths |-> {},
     online |-> [v \in Users |-> 0]]

Slots == 1..MaxInflight
\* the suspended handleEditMessage and handleDeleteMessageForEveryone
EditSlot == MaxInflight + 1
DeleteSlot == MaxInflight + 2
\* the handleSocketConnection suspended at await getFilteredOnlineUsers
ConnectSlot == MaxInflight + 3
HandlerSlots == 1..(MaxInflight + 3)
FreeSlots == {i \in Slots : inflight[i].pc = "idle"}
\* saves the suspended handlers will still make
PendingSaves == Cardinality({i \in Slots : inflight[i].pc = "save"})

\* group.members of the document the lookup returned, as user ids in order
MemberSeq(grp) == [i \in 1..Len(grp.members) |-> grp.members[i].user]

\* blockedMembers: the other members the sender has blocked
BlockedMembers(grp, u) == {v \in MemberIds(grp) \ {u} : v \in blockedUsers[u]}

\* blockingMembers: the other members that have blocked the sender
BlockingMembers(grp, u) == {v \in MemberIds(grp) \ {u} : u \in blockedUsers[v]}

\* a user who left the group may still write to it
SendGroupOutcomeUnlessLeft(g, u) ==
    IF IsActiveMember(g, u) \/ (g \in GroupIds /\ groups[g].exists /\ u \in LeftIds(groups[g]))
    THEN "ok"
    ELSE IF WasRemoved(g, u) THEN "You were removed from this group"
    ELSE "Group not found or access denied"

\* the membership lookup of handleSendGroupMessage and the error it answers
SendGroupOutcome(g, u) ==
    IF IsActiveMember(g, u) THEN "ok"
    ELSE IF WasRemoved(g, u) THEN "You were removed from this group"
    ELSE "Group not found or access denied"

SendGroupLookup(s, g, text, type) ==
    /\ Connected(s)
    /\ FreeSlots # {}
    /\ LET u == sockets[s].userId
           i == CHOOSE k \in FreeSlots : \A j \in FreeSlots : k <= j IN
       IF SendGroupOutcome(g, u) = "ok"
       THEN /\ Len(messages) + PendingSaves < MaxGroupMessages
            /\ inflight' = [inflight EXCEPT ![i] =
                               [pc |-> "save", sock |-> s, user |-> u, group |-> g,
                                members |-> MemberSeq(groups[g]),
                                blockedMembers |-> BlockedMembers(groups[g], u),
                                blockingMembers |-> BlockingMembers(groups[g], u),
                                text |-> text, type |-> type, mid |-> 0,
                                doc |-> NoDocument, paths |-> {},
                                online |-> Idle.online]]
            /\ emitted' = <<>>
       ELSE /\ inflight' = inflight
            /\ emitted' = EmitError(s, SendGroupOutcome(g, u))
    /\ UNCHANGED <<now, blockedUsers, messages, groups, sockets, onlineUsers, userRooms>>

SendGroupSave(i) ==
    /\ inflight[i].pc = "save"
    /\ messages' = Append(messages,
                          NewMessage(inflight[i].user, NoUser, inflight[i].group,
                                     inflight[i].text, inflight[i].type, FALSE))
    /\ inflight' = [inflight EXCEPT ![i].pc = "cache", ![i].mid = Len(messages')]
    /\ emitted' = <<>>
    /\ UNCHANGED <<now, blockedUsers, groups, sockets, onlineUsers, userRooms>>

\* $set latestMessage from the handler's own copy of the message
SendGroupCache(i) ==
    /\ inflight[i].pc = "cache"
    /\ groups' = [groups EXCEPT ![inflight[i].group].latestMessage =
                     [messageId |-> inflight[i].mid, text |-> inflight[i].text,
                      messageType |-> inflight[i].type, sender |-> inflight[i].user,
                      createdAt |-> messages[inflight[i].mid].createdAt]]
    /\ inflight' = [inflight EXCEPT ![i].pc = "fanout"]
    /\ emitted' = <<>>
    /\ UNCHANGED <<now, blockedUsers, messages, sockets, onlineUsers, userRooms>>

\* for (const member of group.members): newMessage to the member if online
NewMessageEvents(members, mid, g) ==
    LET F[k \in 0..Len(members)] ==
            IF k = 0 THEN <<>>
            ELSE F[k - 1] \o EmitToUser(members[k], "newMessage", mid, FALSE, NoUser, g)
    IN F[Len(members)]

\* the fan-out over the members the lookup returned, then the confirmation
GroupSendEvents(op) ==
    NewMessageEvents(op.members, op.mid, op.group)
    \o Emit(op.sock, "messageSent", op.mid, FALSE, NoUser, op.group, "")

SendGroupFanout(i) ==
    /\ inflight[i].pc = "fanout"
    /\ emitted' = GroupSendEvents(inflight[i])
    /\ inflight' = [inflight EXCEPT ![i] = Idle]
    /\ UNCHANGED <<now, blockedUsers, messages, groups, sockets, onlineUsers, userRooms>>

-----------------------------------------------------------------------------
(* socketService.ts: handleEditMessage and handleDeleteMessageForEveryone,  *)
(* split at their store calls: Message.findOne(), then the checks and the   *)
(* assignments on the document found, then message.save() and the emits.    *)

\* the paths an assignment changed on the document found
ModifiedPaths(found, doc) == {f \in DOMAIN found : doc[f] # found[f]}

\* the handler's whole document replaces the stored one
SavedWholeDocument(stored, doc, paths) == doc

\* message.save(): $set of the modified paths on the stored document
Saved(stored, doc, paths) ==
    [f \in DOMAIN stored |-> IF f \in paths THEN doc[f] ELSE stored[f]]

HandleEditMessageFind(s, mid, text) ==
    /\ Connected(s)
    /\ inflight[EditSlot].pc = "idle"
    /\ LET u == sockets[s].userId
           outcome == EditOutcome(u, mid) IN
       IF outcome = "ok"
       THEN /\ inflight' = [inflight EXCEPT ![EditSlot] =
                               [Idle EXCEPT !.pc = "editSave", !.sock = s, !.user = u,
                                            !.mid = mid,
                                            !.doc = Edited(messages[mid], text),
                                            !.paths = ModifiedPaths(messages[mid],
                                                                    Edited(messages[mid], text))]]
            /\ emitted' = <<>>
       ELSE /\ inflight' = inflight
            /\ emitted' = EmitError(s, outcome)
    /\ UNCHANGED <<now, blockedUsers, messages, groups, sockets, onlineUsers, userRooms>>

\* the events carry the handler's document
HandleEditMessageSave ==
    /\ inflight[EditSlot].pc = "editSave"
    /\ LET op == inflight[EditSlot] IN
       /\ messages' = [messages EXCEPT ![op.mid] = Saved(@, op.doc, op.paths)]
       /\ emitted' = EditEvents(op.sock, op.mid, op.doc)
    /\ inflight' = [inflight EXCEPT ![EditSlot] = Idle]
    /\ UNCHANGED <<now, blockedUsers, groups, sockets, onlineUsers, userRooms>>

HandleDeleteMessageForEveryoneFind(s, mid) ==
    /\ Connected(s)
    /\ inflight[DeleteSlot].pc = "idle"
    /\ LET u == sockets[s].userId
           outcome == DeleteForEveryoneOutcome(u, mid) IN
       IF outcome = "ok"
       THEN /\ inflight' = [inflight EXCEPT ![DeleteSlot] =
                               [Idle EXCEPT !.pc = "deleteSave", !.sock = s, !.user = u,
                                            !.mid = mid,
                                            !.doc = Tombstoned(messages[mid]),
                                            !.paths = ModifiedPaths(messages[mid],
                                                                    Tombstoned(messages[mid]))]]
            /\ emitted' = <<>>
       ELSE /\ inflight' = inflight
            /\ emitted' = EmitError(s, outcome)
    /\ UNCHANGED <<now, blockedUsers, messages, groups, sockets, onlineUsers, userRooms>>

\* for a group message the find and save of the group's latestMessage are
\* taken with the save of the message
HandleDeleteMessageForEveryoneSave ==
    /\ inflight[DeleteSlot].pc = "deleteSave"
    /\ LET op == inflight[DeleteSlot] IN
       /\ messages' = [messages EXCEPT ![op.mid] = Saved(@, op.doc, op.paths)]
       /\ groups' = IF op.doc.group # NoGroup
                    THEN [groups EXCEPT ![op.doc.group] =
                             CacheAfterTombstone(@, op.mid, op.doc)]
                    ELSE groups
       /\ emitted' = DeleteForEveryoneEvents(op.mid, op.doc)
    /\ inflight' = [inflight EXCEPT ![DeleteSlot] = Idle]
    /\ UNCHANGED <<now, blockedUsers, sockets, onlineUsers, userRooms>>

-----------------------------------------------------------------------------
(* groupController: removeMemberFromGroup (DELETE /groups/:groupId/members/:memberId) *)

\* Group.findOne({_id, 'members.user': userId, 'members.role': 'admin', isActive: true}):
\* some element has the caller's id and some element has role admin
AdminQuery(g, u) ==
    /\ IsActiveMember(g, u)
    /\ \E i \in 1..Len(groups[g].members) : groups[g].members[i].role = "admin"

\* group.members.findIndex(m => m.user.equals(memberObjectId))
MemberIndex(grp, m) ==
    IF m \in MemberIds(grp)
    THEN CHOOSE i \in 1..Len(grp.members) :
            /\ grp.members[i].user = m
            /\ \A j \in 1..(i - 1) : grp.members[j].user # m
    ELSE 0

\* members.splice(memberIndex, 1)
WithoutIndex(seq, i) == [k \in 1..(Len(seq) - 1) |-> IF k < i THEN seq[k] ELSE seq[k + 1]]

\* the member moves from members to removedMembers
MemberRemoved(grp, u, m) ==
    [grp EXCEPT !.members = WithoutIndex(@, MemberIndex(grp, m)),
                !.removedMembers = Append(@, [user |-> m, removedAt |-> now, removedBy |-> u])]

\* the removed member is notified and its socket is left in the room
EvictedLazily(socks, m, room) == socks

\* io.to(removedMemberSocket.socketId).socketsLeave(room), and socket.leave(room)
\* in removeUserFromGroupRoom: the registered socket of the user leaves the room
Evicted(socks, m, room) ==
    IF OnlineSocket(m) # 0 /\ socks[OnlineSocket(m)].connected
    THEN [socks EXCEPT ![OnlineSocket(m)].rooms = @ \ {room}]
    ELSE socks

\* removeUserFromGroupRoom: userRooms.get(userId).delete(roomName)
Untracked(tracker, m, room) ==
    IF OnlineSocket(m) # 0 /\ sockets[OnlineSocket(m)].connected
    THEN [tracker EXCEPT ![m] = @ \ {room}]
    ELSE tracker

\* groupMemberRemoved to every member left in group.members that is online;
\* the payload's removedMemberId is the loop's own memberId, the recipient
RemainingEvents(members, mid, g) ==
    LET F[k \in 0..Len(members)] ==
            IF k = 0 THEN <<>>
            ELSE F[k - 1] \o EmitToUser(members[k].user, "groupMemberRemoved", mid, FALSE,
                                        members[k].user, g)
    IN F[Len(members)]

\* the events of a removal, in emission order
RemovalEvents(grp, g, m, mid) ==
    EmitToUser(m, "memberRemovedFromGroup", mid, FALSE, NoUser, g)
    \o (IF OnlineSocket(m) # 0
        THEN EmitError(OnlineSocket(m), "You were removed from this group")
        ELSE <<>>)
    \o RemainingEvents(grp.members, mid, g)

\* find and save of the member arrays are one step (a versioned array save);
\* the system message's text, `${username} was removed from this group`, is
\* written "member removed"
RemoveMemberFromGroup(u, g, m) ==
    /\ groups[g].exists
    /\ IF ~AdminQuery(g, u)
       THEN /\ UNCHANGED <<messages, groups, sockets, userRooms>>
            /\ emitted' = Respond(u, "404 Group not found or insufficient permissions")
       ELSE IF MemberIndex(groups[g], m) = 0
       THEN /\ UNCHANGED <<messages, groups, sockets, userRooms>>
            /\ emitted' = Respond(u, "404 Member not found in group")
       ELSE /\ Len(messages) + PendingSaves < MaxGroupMessages
            /\ messages' = Append(messages,
                                  NewMessage(u, NoUser, g, "member removed", "system", FALSE))
            /\ groups' = [groups EXCEPT ![g] =
                             [MemberRemoved(@, u, m) EXCEPT !.latestMessage =
                                 Latest(Len(messages'), messages'[Len(messages')])]]
            /\ sockets' = Evicted(sockets, m, GroupRoom(g))
            /\ userRooms' = Untracked(userRooms, m, GroupRoom(g))
            /\ emitted' = RemovalEvents(groups'[g], g, m, Len(messages'))
                           \o Respond(u, "200")
    /\ UNCHANGED <<now, blockedUsers, onlineUsers, inflight>>

-----------------------------------------------------------------------------
(* groupController: addMembersToGroup (POST /groups/:groupId/members) *)

\* the checks of addMembersToGroup, in the order the controller makes them
AddMembersOutcome(u, g, memberIds) ==
    IF ~AdminQuery(g, u) THEN "404 Group not found or insufficient permissions"
    ELSE IF Cardinality(Range(memberIds)) # Len(memberIds) THEN "400 Some member IDs are invalid"
    ELSE IF \/ \E i \in 1..Len(memberIds) : memberIds[i] \in MemberIds(groups[g])
            \/ InviteBlocked(u, SelectSeq(memberIds, LAMBDA v : v \notin MemberIds(groups[g])))
         THEN "400 Cannot add blocked users, users who blocked you, or users already in group"
    ELSE "200"

\* leftMembers.splice(leftMemberIndex, 1) for every added user that had left
WithoutLeft(left, memberIds) ==
    LET F[k \in 0..Len(memberIds)] ==
            IF k = 0 THEN left
            ELSE LET idx == {i \in 1..Len(F[k - 1]) : F[k - 1][i].user = memberIds[k]}
                 IN  IF idx = {} THEN F[k - 1]
                     ELSE WithoutIndex(F[k - 1], CHOOSE i \in idx : \A j \in idx : i <= j)
    IN F[Len(memberIds)]

\* the added users leave leftMembers and join members; removedMembers is not touched
MembersAdded(grp, memberIds) ==
    [grp EXCEPT
        !.leftMembers = WithoutLeft(@, memberIds),
        !.members = @ \o [i \in 1..Len(memberIds) |-> Member(memberIds[i], "member")]]

\* the system message's text, `${usernames} was added to the group`, is
\* written "members added"
AddMembersToGroup(u, g, memberIds) ==
    /\ groups[g].exists
    /\ LET outcome == AddMembersOutcome(u, g, memberIds) IN
       IF outcome # "200"
       THEN /\ UNCHANGED <<messages, groups>>
            /\ emitted' = Respond(u, outcome)
       ELSE /\ Len(messages) + PendingSaves < MaxGroupMessages
            /\ messages' = Append(messages,
                                  NewMessage(u, NoUser, g, "members added", "system", FALSE))
            /\ groups' = [groups EXCEPT ![g] =
                             [MembersAdded(@, memberIds) EXCEPT !.latestMessage =
                                 Latest(Len(messages'), messages'[Len(messages')])]]
            /\ emitted' = Respond(u, "200")
    /\ UNCHANGED <<now, blockedUsers, sockets, onlineUsers, userRooms, inflight>>

(* groupController: leaveGroup (POST /groups/:groupId/leave) *)

LeaveOutcome(u, g) ==
    IF ~IsActiveMember(g, u) THEN "404 Group not found"
    ELSE IF groups[g].createdBy = u THEN "400 Group creator cannot leave the group"
    ELSE "200"

\* members.filter(m => m.user !== userId); leftMembers.push({user, leftAt})
MemberLeft(grp, u) ==
    [grp EXCEPT !.members = SelectSeq(@, LAMBDA e : e.user # u),
                !.leftMembers = Append(@, [user |-> u, leftAt |-> now])]

\* io.to(groupRoom).emit('groupMemberLeft', {groupId, leftMemberId, message})
MemberLeftEvents(g, u, mid) ==
    [k \in 1..Len(RoomSockets(GroupRoom(g))) |->
        Event(RoomSockets(GroupRoom(g))[k], "groupMemberLeft", mid, FALSE, u, g, "")]

\* the system message's text, `${username} left the group`, is written "member left"
LeaveGroup(u, g) ==
    /\ groups[g].exists
    /\ LET outcome == LeaveOutcome(u, g) IN
       IF outcome # "200"
       THEN /\ UNCHANGED <<messages, groups>>
            /\ emitted' = Respond(u, outcome)
       ELSE /\ Len(messages) + PendingSaves < MaxGroupMessages
            /\ messages' = Append(messages,
                                  NewMessage(u, NoUser, g, "member left", "system", FALSE))
            /\ groups' = [groups EXCEPT ![g] =
                             [MemberLeft(@, u) EXCEPT !.latestMessage =
                                 Latest(Len(messages'), messages'[Len(messages')])]]
            /\ emitted' = MemberLeftEvents(g, u, Len(messages')) \o Respond(u, "200")
    /\ UNCHANGED <<now, blockedUsers, sockets, onlineUsers, userRooms, inflight>>

-----------------------------------------------------------------------------
(* groupController: getGroupMessages (GET /groups/:groupId/messages), the   *)
(* messages its query selects; the pages of the answer are not told apart.  *)

\* group.leftMembers.find(...), group.removedMembers.find(...): the first record
FirstRecord(list, u) ==
    list[CHOOSE i \in 1..Len(list) :
            list[i].user = u /\ \A j \in 1..(i - 1) : list[j].user # u]

\* messageDateFilter: system messages always; the other messages from
\* joinedAt on for a member, up to leftAt or removedAt for a former one
MessageDateFilter(grp, u, m) ==
    \/ m.messageType = "system"
    \/ IF u \in MemberIds(grp)
       THEN m.createdAt >= grp.members[MemberIndex(grp, u)].joinedAt
       ELSE IF u \in LeftIds(grp)
       THEN m.createdAt <= FirstRecord(grp.leftMembers, u).leftAt
       ELSE m.createdAt <= FirstRecord(grp.removedMembers, u).removedAt

GetGroupMessages(u, g) ==
    IF ~(groups[g].exists
         /\ u \in MemberIds(groups[g]) \cup LeftIds(groups[g]) \cup RemovedIds(groups[g]))
    THEN {}
    ELSE {mid \in MessageIds :
             /\ messages[mid].group = g
             /\ MessageDateFilter(groups[g], u, messages[mid])
             /\ u \notin Range(messages[mid].deletedForUsers)
             /\ messages[mid].sender # u \/ ~messages[mid].deletedForSender}

-----------------------------------------------------------------------------
(* socketService.ts: handleJoinGroupChat, handleLeaveGroupChat *)

\* only a removed user is refused
JoinGroupOutcomeUnlessRemoved(g, u) ==
    IF WasRemoved(g, u) /\ ~IsActiveMember(g, u)
    THEN "You were removed from this group"
    ELSE "ok"

JoinGroupOutcome(g, u) ==
    IF IsActiveMember(g, u) THEN "ok"
    ELSE IF WasRemoved(g, u) THEN "You were removed from this group"
    ELSE "You are not a member of this group"

\* socket.join(roomName) unless userRooms already records the room for the user
JoinedSockets(s, u, room) ==
    IF room \in userRooms[u]
    THEN sockets
    ELSE [sockets EXCEPT ![s].rooms = @ \cup {room}]

HandleJoinGroupChat(s, g) ==
    /\ Connected(s)
    /\ LET u == sockets[s].userId
           outcome == JoinGroupOutcome(g, u) IN
       /\ IF outcome = "ok"
          THEN /\ sockets' = JoinedSockets(s, u, GroupRoom(g))
               /\ userRooms' = [userRooms EXCEPT ![u] = @ \cup {GroupRoom(g)}]
               /\ emitted' = <<>>
          ELSE /\ UNCHANGED <<sockets, userRooms>>
               /\ emitted' = EmitError(s, outcome)
    /\ UNCHANGED <<now, blockedUsers, messages, groups, onlineUsers, inflight>>

HandleLeaveGroupChat(s, g) ==
    /\ Connected(s)
    /\ sockets' = [sockets EXCEPT ![s].rooms = @ \ {GroupRoom(g)}]
    /\ userRooms' = [userRooms EXCEPT ![sockets[s].userId] = @ \ {GroupRoom(g)}]
    /\ emitted' = <<>>
    /\ UNCHANGED <<now, blockedUsers, messages, groups, onlineUsers, inflight>>

-----------------------------------------------------------------------------
(* socketService.ts: handleMarkGroupMessagesAsRead; groupController:        *)
(* markGroupMessagesAsRead and the unread count of getUserGroups            *)

\* every member's read marker is moved, not only the caller's
MarkedGroupReadForAll(grp, u) ==
    [grp EXCEPT !.members =
        [i \in 1..Len(@) |-> [@[i] EXCEPT !.lastReadAt = now, !.unreadCount = 0]]]

\* Group.updateOne({_id, 'members.user': u},
\*                 {$set: {'members.$.lastReadAt': new Date(), 'members.$.unreadCount': 0}})
MarkedGroupRead(grp, u) ==
    IF MemberIndex(grp, u) = 0
    THEN grp
    ELSE [grp EXCEPT !.members[MemberIndex(grp, u)] =
             [@ EXCEPT !.lastReadAt = now, !.unreadCount = 0]]

HandleMarkGroupMessagesAsRead(s, g) ==
    /\ Connected(s)
    /\ groups' = IF g \in GroupIds /\ groups[g].exists
                 THEN [groups EXCEPT ![g] = MarkedGroupRead(@, sockets[s].userId)]
                 ELSE groups
    /\ emitted' = <<>>
    /\ UNCHANGED <<now, blockedUsers, messages, sockets, onlineUsers, userRooms, inflight>>

MarkGroupMessagesAsRead(u, g) ==
    /\ IF IsActiveMember(g, u)
       THEN /\ groups' = [groups EXCEPT ![g] = MarkedGroupRead(@, u)]
            /\ emitted' = Respond(u, "200")
       ELSE /\ groups' = groups
            /\ emitted' = Respond(u, "404 Group not found or access denied")
    /\ UNCHANGED <<now, blockedUsers, messages, sockets, onlineUsers, userRooms, inflight>>

\* the count looks at the group's cached latestMessage only
UnreadCountLatestOnly(g, u) ==
    IF ~IsActiveMember(g, u) THEN 0
    ELSE IF /\ groups[g].latestMessage.createdAt
                  > groups[g].members[MemberIndex(groups[g], u)].lastReadAt
            /\ groups[g].latestMessage.sender # u
         THEN 1
         ELSE 0

\* the count is read from the member's stored unreadCount
UnreadCountStored(g, u) ==
    IF ~IsActiveMember(g, u) THEN 0
    ELSE groups[g].members[MemberIndex(groups[g], u)].unreadCount

\* getUserGroups: for an active member, the messages of the group created
\* after the member's lastReadAt, by others, not deleted for the member
UnreadCount(g, u) ==
    IF ~IsActiveMember(g, u) THEN 0
    ELSE LET lastReadAt == groups[g].members[MemberIndex(groups[g], u)].lastReadAt IN
         Cardinality({mid \in MessageIds :
             /\ messages[mid].group = g
             /\ messages[mid].createdAt > lastReadAt
             /\ messages[mid].sender # u
             /\ u \notin Range(messages[mid].deletedForUsers)})

-----------------------------------------------------------------------------
(* socketService.ts: handleSocketConnection and its disconnect listener *)

\* neither has blocked the other
Unblocked(u, v) == v \notin blockedUsers[u] /\ u \notin blockedUsers[v]

\* only the users who blocked u are skipped
StatusEventsUnlessBlockedByThem(registry, socks, u, ev) ==
    LET Notify(v) ==
            IF v # u /\ registry[v] # 0 /\ socks[registry[v]].connected
               /\ u \notin blockedUsers[v]
            THEN <<Event(registry[v], ev, 0, FALSE, u, NoGroup, "")>>
            ELSE <<>>
        F[k \in 0..Len(UserOrder)] ==
            IF k = 0 THEN <<>> ELSE F[k - 1] \o Notify(UserOrder[k])
    IN F[Len(UserOrder)]

\* notifyUserOnlineStatus: userOnline / userOffline to every other registered
\* user, unless one of the two has blocked the other
StatusEvents(registry, socks, u, ev) ==
    LET Notify(v) ==
            IF v # u /\ registry[v] # 0 /\ socks[registry[v]].connected /\ Unblocked(u, v)
            THEN <<Event(registry[v], ev, 0, FALSE, u, NoGroup, "")>>
            ELSE <<>>
        F[k \in 0..Len(UserOrder)] ==
            IF k = 0 THEN <<>> ELSE F[k - 1] \o Notify(UserOrder[k])
    IN F[Len(UserOrder)]

\* getFilteredOnlineUsers: the registered users, the current user always,
\* another user unless one of the two has blocked the other
GetFilteredOnlineUsers(registry, u) ==
    {v \in Users : registry[v] # 0 /\ (v = u \/ Unblocked(u, v))}

\* socket.emit("onlineUsers", filteredOnlineUsers)
SnapshotEvent(sid, registry, u) ==
    <<[Event(sid, "onlineUsers", 0, FALSE, NoUser, NoGroup, "")
          EXCEPT !.users = GetFilteredOnlineUsers(registry, u)]>>

NewSocket(u) == [userId |-> u, connected |-> TRUE, rooms |-> {}]

Connect(u) ==
    /\ Len(sockets) < MaxSockets
    /\ sockets' = Append(sockets, NewSocket(u))
    /\ onlineUsers' = [onlineUsers EXCEPT ![u] = Len(sockets')]
    /\ emitted' = StatusEvents(onlineUsers', sockets', u, "userOnline")
                  \o SnapshotEvent(Len(sockets'), onlineUsers', u)
    /\ UNCHANGED <<now, blockedUsers, messages, groups, userRooms, inflight>>

\* socket.on("disconnect"): onlineUsers.delete(socket.userId), userRooms.delete
Disconnect(s) ==
    /\ Connected(s)
    /\ sockets' = [sockets EXCEPT ![s].connected = FALSE, ![s].rooms = {}]
    /\ onlineUsers' = [onlineUsers EXCEPT ![sockets[s].userId] = 0]
    /\ userRooms' = [userRooms EXCEPT ![sockets[s].userId] = {}]
    /\ emitted' = StatusEvents(onlineUsers', sockets', sockets[s].userId, "userOffline")
    /\ UNCHANGED <<now, blockedUsers, messages, groups, inflight>>

(* handleSocketConnection in its two parts: up to the await of              *)
(* getFilteredOnlineUsers, and from there on. The listeners, the one for     *)
(* "disconnect" included, are registered in the second part.                 *)

\* the registry entry, the status notification, and the call of
\* getFilteredOnlineUsers with the registry as it is now
ConnectStart(u) ==
    /\ Len(sockets) < MaxSockets
    /\ inflight[ConnectSlot].pc = "idle"
    /\ sockets' = Append(sockets, NewSocket(u))
    /\ onlineUsers' = [onlineUsers EXCEPT ![u] = Len(sockets')]
    /\ emitted' = StatusEvents(onlineUsers', sockets', u, "userOnline")
    /\ inflight' = [inflight EXCEPT ![ConnectSlot] =
                        [Idle EXCEPT !.pc = "snapshot", !.sock = Len(sockets'), !.user = u,
                                     !.online = onlineUsers']]
    /\ UNCHANGED <<now, blockedUsers, messages, groups, userRooms>>

\* socket.emit("onlineUsers", ...), which a closed socket drops, and the
\* socket.on registrations
ConnectFinish ==
    /\ inflight[ConnectSlot].pc = "snapshot"
    /\ LET op == inflight[ConnectSlot] IN
       emitted' = IF sockets[op.sock].connected
                  THEN SnapshotEvent(op.sock, op.online, op.user)
                  ELSE <<>>
    /\ inflight' = [inflight EXCEPT ![ConnectSlot] = Idle]
    /\ UNCHANGED <<now, blockedUsers, messages, groups, sockets, onlineUsers, userRooms>>

\* the connection of socket s closes: the "disconnect" listener runs when it
\* has been registered; an event without a listener is dropped
Close(s) ==
    /\ Connected(s)
    /\ IF inflight[ConnectSlot].pc = "snapshot" /\ inflight[ConnectSlot].sock = s
       THEN /\ sockets' = [sockets EXCEPT ![s].connected = FALSE, ![s].rooms = {}]
            /\ emitted' = <<>>
            /\ UNCHANGED <<now, blockedUsers, messages, groups, onlineUsers, userRooms, inflight>>
       ELSE Disconnect(s)

-----------------------------------------------------------------------------
(* Initial states. *)

\* the server as constructed: empty stores, nobody connected
InitServer ==
    /\ now = 0
    /\ blockedUsers = [u \in Users |-> {}]
    /\ messages = <<>>
    /\ groups = [g \in GroupIds |-> NoSuchGroup]
    /\ sockets = <<>>
    /\ onlineUsers = [u \in Users |-> 0]
    /\ userRooms = [u \in Users |-> {}]
    /\ inflight = [i \in HandlerSlots |-> Idle]
    /\ emitted = <<>>

\* the server once u1, u2 and u3 have connected, in that order
InitOnline ==
    /\ now = 0
    /\ blockedUsers = [u \in Users |-> {}]
    /\ messages = <<>>
    /\ groups = [g \in GroupIds |-> NoSuchGroup]
    /\ sockets = [i \in 1..Len(UserOrder) |-> NewSocket(UserOrder[i])]
    /\ onlineUsers = [u \in Users |-> Rank(u)]
    /\ userRooms = [u \in Users |-> {}]
    /\ inflight = [i \in HandlerSlots |-> Idle]
    /\ emitted = <<>>

SocketIds == 1..Len(sockets)
\* the connected sockets that authenticated as u
SocketsOf(u) == {s \in SocketIds : sockets[s].connected /\ sockets[s].userId = u}
\* the ids a client names: those of the stored messages and one of no message
AnyMessageId == 1..(Len(messages) + 1)

-----------------------------------------------------------------------------
(* The message lifecycle: create, edit, delete for everyone, over the clock. *)
(* u1 writes to u2; u1 and u2 edit and delete.                                *)

Authors == {"u1", "u2"}
AuthorSockets == {Rank(u) : u \in Authors}

NextMessages ==
    \/ Tick
    \/ \E ty \in UserTypes : Len(messages) < MaxFollowed /\ HandleSendMessage(1, "u2", "hi", ty)
    \/ \E s \in AuthorSockets, mid \in AnyMessageId : HandleEditMessage(s, mid, " yo ")
    \/ \E mid \in AnyMessageId : EditMessage("u1", mid, " yo ")
    \/ \E s \in AuthorSockets, mid \in AnyMessageId : HandleDeleteMessageForEveryone(s, mid)
    \/ \E mid \in AnyMessageId : DeleteMessageForEveryone("u1", mid)

SpecMessages == InitOnline /\ [][NextMessages]_vars

-----------------------------------------------------------------------------
(* Properties of the message lifecycle, under SpecMessages. *)

ErrorsTo(s) == {emitted[k].error : k \in {j \in 1..Len(emitted) : emitted[j].to = s /\ emitted[j].ev = "error"}}
Responses == {emitted[k].error : k \in {j \in 1..Len(emitted) : emitted[j].ev = "response"}}

\* C1: every message with deletedForEveryone = true has the tombstone text
\* "This message was deleted" and isEdited = true, whichever entry point
\* produced the state.
C1_TombstoneInvariant ==
    \A mid \in MessageIds :
        messages[mid].deletedForEveryone =>
            messages[mid].text = Tombstone /\ messages[mid].isEdited

\* C10: an edit or a delete-for-everyone by the sender of a message older
\* than 12 hours (12h+1s) is answered with the age-limit error and changes
\* no message; below 12 hours (11h59m) a delete-for-everyone is carried out,
\* and so is an edit of a text message; the socket handlers and the HTTP
\* controllers draw the same line.
C10_Window ==
    [][\A mid \in MessageIds :
        LET m == messages[mid]
            u == m.sender
            s == Rank(u)
            age == now - m.createdAt
        IN  /\ age > 43200000 /\ HandleEditMessage(s, mid, " yo ") =>
                /\ messages' = messages
                /\ emitted' = <<Event(s, "error", 0, FALSE, NoUser, NoGroup,
                                      "Cannot edit message older than 12 hours")>>
            /\ age < 43200000 /\ m.messageType = "text" /\ HandleEditMessage(s, mid, " yo ") =>
                /\ messages'[mid].text = "yo" /\ messages'[mid].isEdited
                /\ messages'[mid].editedAt = now
                /\ \A k \in 1..Len(emitted') : emitted'[k].ev = "messageEdited"
            /\ age > 43200000 /\ HandleDeleteMessageForEveryone(s, mid) =>
                /\ messages' = messages
                /\ emitted' = <<Event(s, "error", 0, FALSE, NoUser, NoGroup,
                                      "Cannot delete message older than 12 hours")>>
            /\ age < 43200000 /\ HandleDeleteMessageForEveryone(s, mid) =>
                /\ messages'[mid].deletedForEveryone
                /\ \A k \in 1..Len(emitted') : emitted'[k].ev = "messageDeletedForEveryone"
            /\ age > 43200000 /\ EditMessage(u, mid, " yo ") =>
                /\ messages' = messages
                /\ emitted' = Respond(u, "400 Cannot edit message older than 12 hours")
            /\ age < 43200000 /\ m.messageType = "text" /\ EditMessage(u, mid, " yo ") =>
                /\ messages'[mid].text = "yo" /\ messages'[mid].isEdited
                /\ emitted' = Respond(u, "200")
            /\ age > 43200000 /\ DeleteMessageForEveryone(u, mid) =>
                /\ messages' = messages
                /\ emitted' = Respond(u, "400 Cannot delete message older than 12 hours")
            /\ age < 43200000 /\ DeleteMessageForEveryone(u, mid) =>
                /\ messages'[mid].deletedForEveryone
                /\ emitted' = Respond(u, "200")
    ]_vars

\* an edit accepted at 11h59m and, later, an edit refused at 12h+1s
C10_Witness ==
    /\ \E mid \in MessageIds :
          messages[mid].isEdited /\ messages[mid].editedAt - messages[mid].createdAt = 43140000
    /\ \E mid \in MessageIds : now - messages[mid].createdAt = 43201000
    /\ "Cannot edit message older than 12 hours" \in ErrorsTo(1)

-----------------------------------------------------------------------------
(* Direct delivery: u1 writes to u2 while the two block and unblock each     *)
(* other and u2 opens and closes the chat, reconnects and disconnects.       *)

Pair == {"u1", "u2"}

NextDirect ==
    \/ \E u, v \in Pair : BlockUser(u, v)
    \/ \E u, v \in Pair : UnblockUser(u, v)
    \/ \E s \in SocketsOf("u2") : HandleJoinChat(s, "u1")
    \/ \E s \in SocketsOf("u2") : HandleLeaveChat(s, "u1")
    \/ HandleSendMessage(1, "u2", "hi", "text")
    \/ Connect("u2")
    \/ \E s \in SocketsOf("u2") : Disconnect(s)

SpecDirect == InitOnline /\ [][NextDirect]_vars

-----------------------------------------------------------------------------
(* Properties of direct delivery, under SpecDirect. *)

\* one of the two has the other on its block list
Blocking(a, r) == r \in blockedUsers[a] \/ a \in blockedUsers[r]

C3_BlockedSendNotDelivered ==
    [][HandleSendMessage(1, "u2", "hi", "text") /\ Blocking("u1", "u2") =>
        /\ \A k \in 1..Len(emitted') : emitted'[k].ev # "receiveMessage"
        /\ \A k \in 1..Len(emitted') : sockets[emitted'[k].to].userId # "u2"
        /\ \E k \in 1..Len(emitted') :
              emitted'[k].to = 1 /\ emitted'[k].ev = "messageSent"
    ]_vars

\* a send suppressed because u1 blocks u2, while u2 is registered and has
\* the chat open
C3_Witness ==
    /\ "u2" \in blockedUsers["u1"]
    /\ "u1" \notin blockedUsers["u2"]
    /\ onlineUsers["u2"] # 0
    /\ ChatRoom("u1", "u2") \in sockets[onlineUsers["u2"]].rooms
    /\ emitted = <<Event(1, "messageSent", 0, FALSE, NoUser, NoGroup, "")>>

\* C6: a socket send from A to B with no block between them creates the
\* message with isRead = true exactly when B's registered connection is in
\* the chat room of the pair at that moment; then B receives receiveMessage
\* with isRead = true and A receives messagesRead naming B, with no
\* markMessagesAsRead call; otherwise isRead = false and A receives no
\* messagesRead.
C6_PassiveRead ==
    [][HandleSendMessage(1, "u2", "hi", "text") /\ ~Blocking("u1", "u2") =>
        LET reg == onlineUsers["u2"]
            viewing == /\ reg # 0
                       /\ sockets[reg].connected
                       /\ ChatRoom("u1", "u2") \in sockets[reg].rooms
            mid == Len(messages')
        IN  /\ Len(messages') = Len(messages) + 1
            /\ messages'[mid].sender = "u1" /\ messages'[mid].receiver = "u2"
            /\ messages'[mid].isRead = viewing
            /\ viewing =>
                  /\ \E k \in 1..Len(emitted') :
                        emitted'[k] = Event(reg, "receiveMessage", mid, TRUE, NoUser, NoGroup, "")
                  /\ \E k \in 1..Len(emitted') :
                        /\ emitted'[k].to = 1
                        /\ emitted'[k].ev = "messagesRead"
                        /\ emitted'[k].user = "u2"
            /\ ~viewing =>
                  /\ \A k \in 1..Len(emitted') : emitted'[k].ev # "messagesRead"
                  /\ \A k \in 1..Len(emitted') :
                        emitted'[k].ev = "receiveMessage" => ~emitted'[k].isRead
    ]_vars

\* u2 reconnected and opened the chat on the new socket; the send is read at
\* once and u1 is told so
C6_Witness ==
    /\ Len(messages) > 0
    /\ messages[Len(messages)].isRead
    /\ emitted = <<Event(4, "receiveMessage", Len(messages), TRUE, NoUser, NoGroup, ""),
                   Event(1, "messageSent", Len(messages), TRUE, NoUser, NoGroup, ""),
                   Event(1, "messagesRead", 0, FALSE, "u2", NoGroup, "")>>

-----------------------------------------------------------------------------
(* Group delivery: u1 creates g1 with u2 and u3; u2 writes to the group and  *)
(* u1 writes to u2; u1 removes u3, who joins the room, reconnects and        *)
(* disconnects.                                                              *)

NextGroup ==
    \/ CreateGroup("u1", "g1", <<"u2", "u3">>)
    \/ SendGroupLookup(2, "g1", "hi", "text")
    \/ \E i \in Slots : SendGroupSave(i)
    \/ \E i \in Slots : SendGroupCache(i)
    \/ \E i \in Slots : SendGroupFanout(i)
    \/ RemoveMemberFromGroup("u1", "g1", "u3")
    \/ \E s \in SocketsOf("u3") : HandleJoinGroupChat(s, "g1")
    \/ Connect("u3")
    \/ \E s \in SocketsOf("u3") : Disconnect(s)
    \/ HandleSendMessage(1, "u2", "hi", "text")

SpecGroup == InitOnline /\ [][NextGroup]_vars

-----------------------------------------------------------------------------
(* Properties of group delivery, under SpecGroup. *)

\* the user a socket authenticated as
UserOf(s) == IF s \in SocketIds THEN sockets[s].userId ELSE NoUser

\* C4: once the removal of M from G is persisted, no newMessage for G is
\* delivered to a connection of M, whatever the interleaving of the send
\* handler with the removal, and also after M reconnects.
C4_NoNewMessageAfterRemoval ==
    \A k \in 1..Len(emitted) :
        emitted[k].ev = "newMessage" =>
            UserOf(emitted[k].to) \notin RemovedIds(groups[emitted[k].group])

\* C5: when admin u1 removes online member u3 from g1, in the state the
\* removal leaves u3's registered connection has received
\* memberRemovedFromGroup and is not in the room of g1, every remaining
\* member that is online has received groupMemberRemoved, and no connection
\* of u3 has received groupMemberRemoved.
C5_RemovalEvictsAndNotifies ==
    [][/\ RemoveMemberFromGroup("u1", "g1", "u3")
       /\ \E i \in 1..Len(groups["g1"].members) :
             groups["g1"].members[i].user = "u1" /\ groups["g1"].members[i].role = "admin"
       /\ \E i \in 1..Len(groups["g1"].members) : groups["g1"].members[i].user = "u3"
       /\ onlineUsers["u3"] # 0
       =>
       LET reg == onlineUsers["u3"] IN
       /\ \E k \in 1..Len(emitted') :
             /\ emitted'[k].to = reg
             /\ emitted'[k].ev = "memberRemovedFromGroup"
             /\ emitted'[k].group = "g1"
       /\ GroupRoom("g1") \notin sockets'[reg].rooms
       /\ \A v \in Users :
             (\E i \in 1..Len(groups'["g1"].members) : groups'["g1"].members[i].user = v)
             /\ onlineUsers[v] # 0
             => \E k \in 1..Len(emitted') :
                   /\ emitted'[k].to = onlineUsers[v]
                   /\ emitted'[k].ev = "groupMemberRemoved"
                   /\ emitted'[k].group = "g1"
       /\ \A k \in 1..Len(emitted') :
             emitted'[k].ev = "groupMemberRemoved" => UserOf(emitted'[k].to) # "u3"
    ]_vars

\* u3, online and once joined to the room, has just been removed by u1
C5_Witness ==
    /\ groups["g1"].exists
    /\ RemovedIds(groups["g1"]) = {"u3"}
    /\ MemberIds(groups["g1"]) = {"u1", "u2"}
    /\ onlineUsers["u3"] = 3
    /\ GroupRoom("g1") \notin sockets[3].rooms
    /\ Len(emitted) = 5
    /\ emitted[1].to = 3 /\ emitted[1].ev = "memberRemovedFromGroup"
    /\ emitted[3].to = 1 /\ emitted[3].ev = "groupMemberRemoved"
    /\ emitted[4].to = 2 /\ emitted[4].ev = "groupMemberRemoved"
    /\ emitted[5].ev = "response" /\ emitted[5].error = "200"

\* C7 as stated: the messageSent of a send is emitted before every event for
\* that message to a connection of another user (receiveMessage, newMessage).
C7_SenderFirst ==
    \A i, j \in 1..Len(emitted) :
        /\ emitted[i].ev = "messageSent"
        /\ emitted[j].ev \in {"receiveMessage", "newMessage"}
        /\ emitted[j].mid = emitted[i].mid
        /\ UserOf(emitted[j].to) # UserOf(emitted[i].to)
        => i < j

\* C7, amended: the messageSent of a send is emitted after every event for
\* that message to a connection of another user: after receiveMessage in a
\* direct send, after the newMessage to each online member in a group send.
C7_SenderLast ==
    \A i, j \in 1..Len(emitted) :
        /\ emitted[i].ev = "messageSent"
        /\ emitted[j].ev \in {"receiveMessage", "newMessage"}
        /\ emitted[j].mid = emitted[i].mid
        /\ UserOf(emitted[j].to) # UserOf(emitted[i].to)
        => j < i

\* a group send by u2 fanned out to u1 and u3 before u2's confirmation
C7_Witness ==
    /\ Len(emitted) = 4
    /\ emitted[1].ev = "newMessage" /\ UserOf(emitted[1].to) = "u1"
    /\ emitted[3].ev = "newMessage" /\ UserOf(emitted[3].to) = "u3"
    /\ emitted[4].ev = "messageSent" /\ emitted[4].to = 2
    /\ emitted[4].mid = emitted[1].mid

-----------------------------------------------------------------------------
(* Deletion for one viewer: u1 writes to u2, creates g1 with u2 and edits;   *)
(* u1, u2 and u3 delete for themselves, over the socket and over HTTP.       *)

\* the direct messages in the store
DirectMessages == {mid \in MessageIds : messages[mid].receiver # NoUser}

NextDeleteForMe ==
    \/ Cardinality(DirectMessages) < MaxFollowed /\ HandleSendMessage(1, "u2", "hi", "text")
    \/ CreateGroup("u1", "g1", <<"u2">>)
    \/ \E mid \in AnyMessageId : HandleEditMessage(1, mid, " yo ")
    \/ \E s \in SocketIds, mid \in AnyMessageId : HandleDeleteMessageForMe(s, mid)
    \/ \E u \in Pair, mid \in AnyMessageId : DeleteMessageForMe(u, mid)

SpecDeleteForMe == InitOnline /\ [][NextDeleteForMe]_vars

-----------------------------------------------------------------------------
(* Properties of deletion for one viewer, under SpecDeleteForMe. *)

\* the other party of a direct message
OtherParty(m, u) == IF m.sender = u THEN m.receiver ELSE m.sender

\* C8: DeleteForMe on a direct message by one party sets that party's flag
\* (deletedForSender for the sender, deletedForReceiver for the receiver) and
\* leaves the other flag, text, isEdited, isRead and deletedForEveryone as
\* they were, so what the other party sees is unchanged; once both flags are
\* set the message is hidden from both, and the row is still in the store.
C8_DeleteForMeFrame ==
    [][\A mid \in MessageIds : \A u \in Pair :
        LET m == messages[mid] IN
        /\ m.receiver # NoUser
        /\ u \in {m.sender, m.receiver}
        /\ HandleDeleteMessageForMe(Rank(u), mid) \/ DeleteMessageForMe(u, mid)
        =>
        /\ Len(messages') = Len(messages)
        /\ \A other \in MessageIds \ {mid} : messages'[other] = messages[other]
        /\ IF u = m.sender
           THEN /\ messages'[mid].deletedForSender
                /\ messages'[mid].deletedForReceiver = m.deletedForReceiver
           ELSE /\ messages'[mid].deletedForReceiver
                /\ messages'[mid].deletedForSender = m.deletedForSender
        /\ messages'[mid].text = m.text
        /\ messages'[mid].isEdited = m.isEdited
        /\ messages'[mid].isRead = m.isRead
        /\ messages'[mid].deletedForEveryone = m.deletedForEveryone
        /\ mid \notin ConversationMessages(u)'
        /\ (mid \in ConversationMessages(OtherParty(m, u))')
             = (mid \in ConversationMessages(OtherParty(m, u)))
        /\ messages'[mid].deletedForSender /\ messages'[mid].deletedForReceiver =>
              /\ mid \notin ConversationMessages(m.sender)'
              /\ mid \notin ConversationMessages(m.receiver)'
              /\ mid \in 1..Len(messages')
    ]_vars

\* u1 and then u2 deleted u1's edited message for themselves: it is hidden
\* from both and still stored
C8_Witness ==
    \E mid \in MessageIds :
        /\ messages[mid].sender = "u1" /\ messages[mid].receiver = "u2"
        /\ messages[mid].text = "yo" /\ messages[mid].isEdited
        /\ messages[mid].deletedForSender /\ messages[mid].deletedForReceiver
        /\ mid \notin ConversationMessages("u1") \cup ConversationMessages("u2")
        /\ emitted = <<Event(2, "messageDeletedForMe", mid, FALSE, NoUser, NoGroup, "")>>

\* C9: a deleteMessageForMe on a direct or a group message emits
\* messageDeletedForMe to the calling connection only: every event of the
\* operation goes to the caller, and a deletion that is carried out emits
\* exactly one messageDeletedForMe.
C9_OnlyCallerNotified ==
    [][\A s \in SocketIds : \A mid \in AnyMessageId :
        HandleDeleteMessageForMe(s, mid) =>
        /\ \A k \in 1..Len(emitted') : emitted'[k].to = s
        /\ messages' # messages =>
              /\ Len(emitted') = 1
              /\ emitted'[1].ev = "messageDeletedForMe"
              /\ emitted'[1].mid = mid
    ]_vars

\* member u2 deleted u1's group message for itself while u1 is online
C9_Witness ==
    /\ \E mid \in MessageIds :
          /\ messages[mid].group = "g1"
          /\ messages[mid].deletedForUsers = <<"u2">>
          /\ emitted = <<Event(2, "messageDeletedForMe", mid, FALSE, NoUser, "g1", "")>>
    /\ onlineUsers["u1"] = 1

-----------------------------------------------------------------------------
(* Who may edit, and what; under SpecMessages. *)

\* C11: a socket editMessage is carried out only when the caller is the
\* sender of the message and the message is of kind text; it then sets text,
\* isEdited = true and editedAt.  When the caller is not the sender or the
\* kind is not text, the caller gets one error event, no message changes and
\* no messageEdited is emitted to anyone.
C11_EditGuard ==
    [][\A s \in AuthorSockets : \A mid \in MessageIds :
        HandleEditMessage(s, mid, " yo ") =>
        LET m == messages[mid] IN
        /\ messages' # messages => m.sender = UserOf(s) /\ m.messageType = "text"
        /\ (\E k \in 1..Len(emitted') : emitted'[k].ev = "messageEdited") =>
              /\ m.sender = UserOf(s) /\ m.messageType = "text"
              /\ messages'[mid].text = "yo"
              /\ messages'[mid].isEdited
              /\ messages'[mid].editedAt = now
        /\ m.sender # UserOf(s) \/ m.messageType # "text" =>
              /\ messages' = messages
              /\ Len(emitted') = 1
              /\ emitted'[1].to = s /\ emitted'[1].ev = "error"
    ]_vars

\* u1's edit of its own image message has just been refused for its kind
C11_Witness ==
    /\ Len(messages) = 1
    /\ messages[1].sender = "u1" /\ messages[1].messageType = "image"
    /\ ~messages[1].isEdited
    /\ emitted = <<Event(1, "error", 0, FALSE, NoUser, NoGroup,
                         "Only text messages can be edited")>>

-----------------------------------------------------------------------------
(* Deletion for everyone, repeated: u1 writes to u2 and creates g1, and      *)
(* deletes its messages for everyone over the socket and over HTTP; nothing  *)
(* else touches a message.                                                   *)

NextTombstone ==
    \/ Tick
    \/ Cardinality(DirectMessages) < MaxFollowed /\ HandleSendMessage(1, "u2", "hi", "text")
    \/ CreateGroup("u1", "g1", <<"u2">>)
    \/ \E s \in AuthorSockets, mid \in AnyMessageId : HandleDeleteMessageForEveryone(s, mid)
    \/ \E mid \in AnyMessageId : DeleteMessageForEveryone("u1", mid)

SpecTombstone == InitOnline /\ [][NextTombstone]_vars

\* C12: a DeleteForEveryone by the sender, within the window, of a message
\* that a DeleteForEveryone has already been applied to leaves its text,
\* deletedForEveryone, isEdited and per-user deletion flags as the first
\* application left them.
C12_DeleteTwice ==
    [][\A mid \in MessageIds :
        LET m == messages[mid] IN
        /\ m.deletedForEveryone
        /\ ~TooOld(m)
        /\ HandleDeleteMessageForEveryone(Rank(m.sender), mid)
             \/ DeleteMessageForEveryone(m.sender, mid)
        =>
        /\ messages'[mid].text = m.text
        /\ messages'[mid].deletedForEveryone
        /\ messages'[mid].isEdited = m.isEdited
        /\ messages'[mid].deletedForSender = m.deletedForSender
        /\ messages'[mid].deletedForReceiver = m.deletedForReceiver
        /\ messages'[mid].deletedForUsers = m.deletedForUsers
    ]_vars

-----------------------------------------------------------------------------
(* The store and its validation hook: documents with any combination of     *)
(* receiver and group are saved on behalf of u1, and the stored messages    *)
(* are edited, deleted and marked read.                                     *)

\* new Message(data).save() inside a handler's try/catch: the validate hook
\* runs first, and a refusal is reported to the caller as a failed send
MessageSave(s, receiver, group) ==
    /\ Connected(s)
    /\ LET m == NewMessage(sockets[s].userId, receiver, group, "hi", "text", FALSE) IN
       IF MessageValid(m)
       THEN /\ messages' = Append(messages, m)
            /\ emitted' = <<>>
       ELSE /\ messages' = messages
            /\ emitted' = EmitError(s, "Failed to send message")
    /\ UNCHANGED <<now, blockedUsers, groups, sockets, onlineUsers, userRooms, inflight>>

NextStore ==
    \/ \E r \in {NoUser, "u2"}, g \in {NoGroup, "g1"} :
          /\ Len(messages) < MaxFollowed \/ (r # NoUser) = (g # NoGroup)
          /\ MessageSave(1, r, g)
    \/ \E mid \in AnyMessageId : HandleEditMessage(1, mid, " yo ")
    \/ \E mid \in AnyMessageId : EditMessage("u1", mid, " yo ")
    \/ \E s \in AuthorSockets, mid \in AnyMessageId : HandleDeleteMessageForMe(s, mid)
    \/ \E u \in Authors, mid \in AnyMessageId : DeleteMessageForMe(u, mid)
    \/ \E mid \in AnyMessageId : HandleDeleteMessageForEveryone(1, mid)
    \/ \E mid \in AnyMessageId : DeleteMessageForEveryone("u1", mid)
    \/ HandleMarkMessagesAsRead(2, "u1")

SpecStore == InitOnline /\ [][NextStore]_vars

\* C13: every stored message has exactly one of receiver and group set; a
\* save of a document with both or with neither is refused and stores
\* nothing; and no later step changes the receiver or the group of a stored
\* message.
C13_ReceiverXorGroup ==
    [][/\ \A mid \in 1..Len(messages') :
             (messages'[mid].receiver # NoUser) # (messages'[mid].group # NoGroup)
       /\ \A mid \in MessageIds :
             /\ messages'[mid].receiver = messages[mid].receiver
             /\ messages'[mid].group = messages[mid].group
       /\ \A r \in {NoUser, "u2"}, g \in {NoGroup, "g1"} :
             MessageSave(1, r, g) /\ ((r # NoUser) = (g # NoGroup)) =>
                 messages' = messages
    ]_vars

\* a save was refused while a direct message, since edited and deleted for
\* everyone, is in the store
C13_Witness ==
    /\ Len(messages) = 1
    /\ messages[1].receiver = "u2" /\ messages[1].group = NoGroup
    /\ messages[1].isEdited /\ messages[1].deletedForEveryone
    /\ emitted = <<Event(1, "error", 0, FALSE, NoUser, NoGroup, "Failed to send message")>>

-----------------------------------------------------------------------------
(* Membership: u1 creates g1 with u2; u1 and u2 add and remove members,      *)
(* every user may leave, and every connection joins and leaves the room.     *)

NextMembership ==
    \/ CreateGroup("u1", "g1", <<"u2">>)
    \/ \E u \in Authors, m \in Users : AddMembersToGroup(u, "g1", <<m>>)
    \/ \E u \in Authors, m \in Users : RemoveMemberFromGroup(u, "g1", m)
    \/ \E u \in Users : LeaveGroup(u, "g1")
    \/ \E s \in SocketIds : HandleJoinGroupChat(s, "g1")
    \/ \E s \in SocketIds : HandleLeaveGroupChat(s, "g1")

SpecMembership == InitOnline /\ [][NextMembership]_vars

\* the number of the lists members, leftMembers, removedMembers that hold u
ListsHolding(grp, u) ==
    Cardinality({l \in {"members", "leftMembers", "removedMembers"} :
                    \E i \in 1..Len(grp[l]) : grp[l][i].user = u})

\* C14: after any sequence of createGroup, addMembersToGroup,
\* removeMemberFromGroup and leaveGroup, each user id is in at most one of
\* the group's members, leftMembers and removedMembers lists.
C14_OneListPerUser ==
    \A g \in GroupIds : \A u \in Users : ListsHolding(groups[g], u) <= 1

\* C15: the user in createdBy is always in the group's members list; a
\* leaveGroup by the creator and a removeMemberFromGroup of the creator are
\* refused and leave the group as it was.
C15_CreatorStays ==
    \A g \in GroupIds :
        groups[g].exists => groups[g].createdBy \in MemberIds(groups[g])

\* C16: a joinGroupChat by a user who is not an active member of the group
\* (never a member, removed, or departed) sends one error event to the caller
\* and does not add the caller's connection to the group room.
C16_JoinNeedsMembership ==
    [][\A s \in SocketIds :
        /\ HandleJoinGroupChat(s, "g1")
        /\ ~(groups["g1"].exists /\ UserOf(s) \in MemberIds(groups["g1"]))
        =>
        /\ sockets'[s].rooms = sockets[s].rooms
        /\ userRooms' = userRooms
        /\ Len(emitted') = 1
        /\ emitted'[1].to = s /\ emitted'[1].ev = "error"
    ]_vars

\* u2 left g1 without ever joining the room, and its join has just been refused
C16_Witness ==
    /\ groups["g1"].exists
    /\ "u2" \in LeftIds(groups["g1"]) \ MemberIds(groups["g1"])
    /\ GroupRoom("g1") \notin sockets[2].rooms
    /\ emitted = <<Event(2, "error", 0, FALSE, NoUser, NoGroup,
                         "You are not a member of this group")>>

-----------------------------------------------------------------------------
(* Group read markers: u1 creates g1 with u2 and writes to it while the      *)
(* clock advances; u1 and u2 mark the group read, over the socket and HTTP.  *)

NextGroupRead ==
    \/ Tick
    \/ CreateGroup("u1", "g1", <<"u2">>)
    \/ SendGroupLookup(1, "g1", "hi", "text")
    \/ \E i \in Slots : SendGroupSave(i)
    \/ \E i \in Slots : SendGroupCache(i)
    \/ \E i \in Slots : SendGroupFanout(i)
    \/ \E s \in SocketIds : HandleMarkGroupMessagesAsRead(s, "g1")
    \/ \E u \in Users : MarkGroupMessagesAsRead(u, "g1")

SpecGroupRead == InitOnline /\ [][NextGroupRead]_vars

\* the members[] element of user u
MemberOf(grp, u) == grp.members[CHOOSE i \in 1..Len(grp.members) : grp.members[i].user = u]

\* C17: a group markRead by a member sets that member's unreadCount to 0 and
\* does not decrease its lastReadAt, so that of two consecutive calls both
\* leave unreadCount = 0 and the second leaves lastReadAt at or after the
\* first's; no other member's lastReadAt or unreadCount changes, and the
\* count getUserGroups then computes for the member is 0.
C17_MarkReadMonotonic ==
    [][\A u \in Users :
        /\ groups["g1"].exists
        /\ u \in MemberIds(groups["g1"])
        /\ HandleMarkGroupMessagesAsRead(Rank(u), "g1") \/ MarkGroupMessagesAsRead(u, "g1")
        =>
        /\ MemberIds(groups'["g1"]) = MemberIds(groups["g1"])
        /\ MemberOf(groups'["g1"], u).unreadCount = 0
        /\ MemberOf(groups'["g1"], u).lastReadAt >= MemberOf(groups["g1"], u).lastReadAt
        /\ \A v \in MemberIds(groups["g1"]) \ {u} :
              /\ MemberOf(groups'["g1"], v).lastReadAt = MemberOf(groups["g1"], v).lastReadAt
              /\ MemberOf(groups'["g1"], v).unreadCount = MemberOf(groups["g1"], v).unreadCount
        /\ UnreadCount("g1", u)' = 0
    ]_vars

\* u2 marked g1 read at 12h+1s, after u1 wrote to it at 11h59m; u1's marker
\* is still the one of the group's creation
C17_Witness ==
    /\ groups["g1"].exists
    /\ MemberIds(groups["g1"]) = {"u1", "u2"}
    /\ MemberOf(groups["g1"], "u2").lastReadAt = 43201000
    /\ MemberOf(groups["g1"], "u1").lastReadAt = 0
    /\ \E mid \in MessageIds :
          /\ messages[mid].group = "g1" /\ messages[mid].sender = "u1"
          /\ messages[mid].createdAt = 43140000
    /\ UnreadCount("g1", "u2") = 0

-----------------------------------------------------------------------------
(* Error events and their origin, under SpecGroup. *)

\* the sockets the last step sent an error event to
ErrorTargets == {emitted[k].to : k \in {j \in 1..Len(emitted) : emitted[j].ev = "error"}}

\* C18: an error event goes only to the connection whose operation caused
\* it: the errors of a socket handler go to the socket that called it, and
\* an operation of one user puts no error event on a socket of another user.
C18_ErrorsToOriginOnly ==
    [][/\ \A s \in SocketIds :
             \/ SendGroupLookup(s, "g1", "hi", "text")
             \/ HandleJoinGroupChat(s, "g1")
             \/ HandleSendMessage(s, "u2", "hi", "text")
             => ErrorTargets' \subseteq {s}
       /\ \A i \in Slots :
             SendGroupSave(i) \/ SendGroupCache(i) \/ SendGroupFanout(i)
             => ErrorTargets' \subseteq {inflight[i].sock}
       /\ \A u \in Users :
             \/ CreateGroup(u, "g1", <<"u2", "u3">>)
             \/ RemoveMemberFromGroup(u, "g1", "u3")
             => \A t \in ErrorTargets' : sockets[t].userId = u
    ]_vars

-----------------------------------------------------------------------------
(* The presence registry across a reconnect, under SpecDirect. *)

\* C19: when a user connects while an older connection of the same user is
\* registered, the registry maps the user to the new connection, and it
\* still does after the disconnect of the older connection is processed.
C19_LastConnectedWins ==
    [][\A u \in Users :
        /\ onlineUsers[u] # 0 /\ Connect(u)
           => onlineUsers'[u] = Len(sockets')
        /\ \A s \in SocketsOf(u) :
              onlineUsers[u] \notin {0, s} /\ Disconnect(s)
              => onlineUsers'[u] = onlineUsers[u]
    ]_vars

-----------------------------------------------------------------------------
(* Presence: the three users block and unblock one another, connect again   *)
(* and disconnect.                                                           *)

NextPresence ==
    \/ \E u \in Users, v \in Users : BlockUser(u, v)
    \/ \E u \in Users, v \in Users : UnblockUser(u, v)
    \/ \E u \in Users : Connect(u)
    \/ \E s \in SocketIds : Disconnect(s)

SpecPresence == InitOnline /\ [][NextPresence]_vars

\* the sockets the last step sent event ev about user u to
NotifiedSockets(ev, u) ==
    {emitted[k].to : k \in {j \in 1..Len(emitted) : emitted[j].ev = ev /\ emitted[j].user = u}}

\* the registered sockets of the users other than u that neither block u nor
\* are blocked by u
UnblockedOnlineSockets(u) ==
    {onlineUsers[x] : x \in {y \in Users \ {u} : onlineUsers[y] # 0 /\ Unblocked(u, y)}}

\* the lists of the onlineUsers snapshots the last step sent to socket s
Snapshots(s) ==
    {emitted[k].users : k \in {j \in 1..Len(emitted) :
                                   emitted[j].ev = "onlineUsers" /\ emitted[j].to = s}}

\* the snapshots sent to the newest socket
NewestSnapshots == Snapshots(Len(sockets))

-----------------------------------------------------------------------------
(* Group delivery between members that block one another: u1 creates g1     *)
(* with u2 and u3; u2 and u3 block and unblock each other; u2 writes to the  *)
(* group.                                                                   *)

NextGroupBlock ==
    \/ CreateGroup("u1", "g1", <<"u2", "u3">>)
    \/ \E u \in {"u2", "u3"}, v \in {"u2", "u3"} : BlockUser(u, v)
    \/ \E u \in {"u2", "u3"}, v \in {"u2", "u3"} : UnblockUser(u, v)
    \/ SendGroupLookup(2, "g1", "hi", "text")
    \/ \E i \in Slots : SendGroupSave(i)
    \/ \E i \in Slots : SendGroupCache(i)
    \/ \E i \in Slots : SendGroupFanout(i)

SpecGroupBlock == InitOnline /\ [][NextGroupBlock]_vars

\* the users whose registered socket the last step sent event ev to
Receivers(ev) ==
    {u \in Users : \E k \in 1..Len(emitted) :
                      emitted[k].ev = ev /\ emitted[k].to = onlineUsers[u]}

\* C21: the fan-out of a group send gives newMessage to no member the
\* sender had blocked or that had blocked the sender when the send was
\* checked, gives it to every other online member, and leaves the member
\* list as it was.
C21_GroupFanoutBlockFiltered ==
    [][\A i \in Slots :
        SendGroupFanout(i)
        => LET op == inflight[i]
               suppressed == op.blockedMembers \cup op.blockingMembers IN
           /\ Receivers("newMessage")' \cap suppressed = {}
           /\ \A t \in Range(op.members) \ suppressed :
                  onlineUsers[t] # 0 => t \in Receivers("newMessage")'
           /\ groups'[op.group].members = groups[op.group].members
    ]_vars

-----------------------------------------------------------------------------
(* Rooms: u1 creates g1 with u2; u2, on its first connection and on a       *)
(* second one, joins and leaves its chats with u1 and u3 and the room of g1. *)

NextRooms ==
    \/ CreateGroup("u1", "g1", <<"u2">>)
    \/ Connect("u2")
    \/ \E s \in SocketsOf("u2") : Disconnect(s)
    \/ \E s \in SocketsOf("u2"), r \in {"u1", "u3"} : HandleJoinChat(s, r)
    \/ \E s \in SocketsOf("u2"), r \in {"u1", "u3"} : HandleLeaveChat(s, r)
    \/ \E s \in SocketsOf("u2") : HandleJoinGroupChat(s, "g1")
    \/ \E s \in SocketsOf("u2") : HandleLeaveGroupChat(s, "g1")

SpecRooms == InitOnline /\ [][NextRooms]_vars

\* C22: a join of a room the connection is in, and a leave of a room it is
\* not in, change neither the connection's rooms nor the room tracker and
\* emit no error; a join adds at most the room and a leave takes away
\* exactly the room, so that a join followed by a leave restores the rooms.
C22_JoinLeaveIdempotent ==
    [][\A s \in SocketsOf("u2") :
        LET room == GroupRoom("g1") IN
        /\ \A r \in {"u1", "u3"} :
              /\ HandleJoinChat(s, r)
                 => /\ sockets'[s].rooms = sockets[s].rooms \cup {ChatRoom("u2", r)}
                    /\ userRooms' = userRooms /\ emitted' = <<>>
              /\ HandleLeaveChat(s, r)
                 => /\ sockets'[s].rooms = sockets[s].rooms \ {ChatRoom("u2", r)}
                    /\ userRooms' = userRooms /\ emitted' = <<>>
        /\ HandleJoinGroupChat(s, "g1")
           => /\ sockets'[s].rooms \subseteq sockets[s].rooms \cup {room}
              /\ room \in sockets[s].rooms
                 => sockets' = sockets /\ userRooms' = userRooms /\ emitted' = <<>>
        /\ HandleLeaveGroupChat(s, "g1")
           => /\ sockets'[s].rooms = sockets[s].rooms \ {room}
              /\ room \notin sockets[s].rooms
                 => sockets' = sockets /\ userRooms' = userRooms /\ emitted' = <<>>
    ]_vars

-----------------------------------------------------------------------------
(* Edits of deleted messages, under SpecMessages. *)

\* C23: an edit of a message that has deletedForEveryone = true and the
\* tombstone text is refused, with an error to the calling socket or an
\* error status to the HTTP caller, and the message's text stays the
\* tombstone.
C23_DeletedIsTerminal ==
    [][\A mid \in MessageIds :
        messages[mid].deletedForEveryone /\ messages[mid].text = Tombstone
        => /\ \A s \in AuthorSockets :
                 HandleEditMessage(s, mid, " yo ")
                 => ErrorsTo(s)' # {} /\ messages'[mid].text = Tombstone
           /\ EditMessage("u1", mid, " yo ")
              => "200" \notin Responses' /\ messages'[mid].text = Tombstone
    ]_vars

-----------------------------------------------------------------------------
(* An edit racing a deletion for everyone: u1 writes "hi" to u2, then edits  *)
(* each message once and deletes it for everyone once, the two handlers      *)
(* suspended at their store calls while the clock advances.                  *)

NextRace ==
    \/ Tick
    \/ Len(messages) < MaxFollowed /\ HandleSendMessage(1, "u2", "hi", "text")
    \/ \E mid \in AnyMessageId, text \in Texts :
          /\ mid \in MessageIds => messages[mid].editedAt = NoTime
          /\ HandleEditMessageFind(1, mid, text)
    \/ HandleEditMessageSave
    \/ \E mid \in AnyMessageId :
          /\ mid \in MessageIds => ~messages[mid].deletedForEveryone
          /\ HandleDeleteMessageForEveryoneFind(1, mid)
    \/ HandleDeleteMessageForEveryoneSave

SpecRace == InitOnline /\ [][NextRace]_vars

\* the message as it was sent, before its edit and its deletion
Pristine(m) ==
    [m EXCEPT !.text = "hi", !.isEdited = FALSE, !.editedAt = NoTime,
              !.deletedForEveryone = FALSE]

\* the edit that set text at instant t, applied to m
EditedWith(m, text, t) == [m EXCEPT !.text = text, !.isEdited = TRUE, !.editedAt = t]

\* what the two serial orders of that edit and the deletion make of m
SerialResults(m, text, t) ==
    {Tombstoned(EditedWith(m, text, t)), EditedWith(Tombstoned(m), text, t)}

\* C24: when the later of the two saves of an edit and a deletion for
\* everyone of one message is made, the stored message is what one of the
\* two serial orders of the edit and the deletion makes of the message as
\* sent, however the finds and the saves were interleaved.
C24_EditDeleteSerializable ==
    [][\A mid \in MessageIds :
        LET e == inflight[EditSlot]
            d == inflight[DeleteSlot]
            m == messages[mid] IN
        /\ /\ e.pc = "editSave" /\ e.mid = mid
           /\ m.deletedForEveryone
           /\ ~(d.pc = "deleteSave" /\ d.mid = mid)
           /\ HandleEditMessageSave
           => messages'[mid] \in SerialResults(Pristine(m), e.doc.text, e.doc.editedAt)
        /\ /\ d.pc = "deleteSave" /\ d.mid = mid
           /\ m.editedAt # NoTime
           /\ ~(e.pc = "editSave" /\ e.mid = mid)
           /\ HandleDeleteMessageForEveryoneSave
           => messages'[mid] \in SerialResults(Pristine(m), m.text, m.editedAt)
    ]_vars

\* the deletion of message 1 has been saved while the edit that found the
\* message as sent waits at its save
C24_Witness ==
    /\ inflight[EditSlot].pc = "editSave" /\ inflight[EditSlot].mid = 1
    /\ "isEdited" \in inflight[EditSlot].paths
    /\ inflight[EditSlot].doc.text = "yo"
    /\ inflight[DeleteSlot].pc = "idle"
    /\ messages[1].deletedForEveryone /\ messages[1].text = Tombstone

-----------------------------------------------------------------------------
(* Who may delete for themself: u1 creates g1 with u2, u2 writes to the      *)
(* group and u1 to u2, u1 removes u2; everyone deletes for themself, over    *)
(* the socket and over HTTP.                                                *)

NextDeleteAccess ==
    \/ Cardinality(DirectMessages) < MaxFollowed /\ HandleSendMessage(1, "u2", "hi", "text")
    \/ CreateGroup("u1", "g1", <<"u2">>)
    \/ SendGroupLookup(2, "g1", "hi", "text")
    \/ \E i \in Slots : SendGroupSave(i)
    \/ \E i \in Slots : SendGroupCache(i)
    \/ \E i \in Slots : SendGroupFanout(i)
    \/ RemoveMemberFromGroup("u1", "g1", "u2")
    \/ \E s \in SocketIds, mid \in AnyMessageId : HandleDeleteMessageForMe(s, mid)
    \/ \E u \in Users, mid \in AnyMessageId : DeleteMessageForMe(u, mid)

SpecDeleteAccess == InitOnline /\ [][NextDeleteAccess]_vars

\* the callers the deletion for oneself is open to: the sender, the direct
\* receiver, an active member of the message's group
MayDeleteForMe(u, mid) ==
    \/ messages[mid].sender = u
    \/ messages[mid].receiver = u
    \/ messages[mid].group # NoGroup /\ IsActiveMember(messages[mid].group, u)

\* C25: a deleteMessageForMe is carried out, whatever the age of the
\* message, exactly when the caller is its sender, its direct receiver or an
\* active member of its group; any other caller gets the permission error
\* and no message changes.
C25_DeleteForMeAccess ==
    [][\A mid \in MessageIds :
        /\ \A s \in SocketIds :
              HandleDeleteMessageForMe(s, mid)
              => IF MayDeleteForMe(sockets[s].userId, mid)
                 THEN /\ ErrorsTo(s)' = {}
                      /\ Len(emitted') = 1 /\ emitted'[1].ev = "messageDeletedForMe"
                 ELSE /\ ErrorsTo(s)' = {"You don't have permission to delete this message"}
                      /\ messages' = messages
        /\ \A u \in Users :
              DeleteMessageForMe(u, mid)
              => IF MayDeleteForMe(u, mid)
                 THEN Responses' = {"200"}
                 ELSE /\ Responses' = {"403 You don't have permission to delete this message"}
                      /\ messages' = messages
    ]_vars

-----------------------------------------------------------------------------
(* Deletion of group messages for one member: u1 creates g1 with u2, u2     *)
(* writes to the group; u1 and u2 delete for themselves, over the socket    *)
(* and over HTTP.                                                           *)

\* the messages users wrote to a group
GroupUserMessages ==
    {mid \in MessageIds : messages[mid].group # NoGroup /\ messages[mid].messageType # "system"}

NextGroupDelete ==
    \/ CreateGroup("u1", "g1", <<"u2">>)
    \/ /\ Cardinality(GroupUserMessages) + PendingSaves < MaxFollowed
       /\ SendGroupLookup(2, "g1", "hi", "text")
    \/ \E i \in Slots : SendGroupSave(i)
    \/ \E i \in Slots : SendGroupCache(i)
    \/ \E i \in Slots : SendGroupFanout(i)
    \/ \E s \in AuthorSockets, mid \in AnyMessageId : HandleDeleteMessageForMe(s, mid)
    \/ \E u \in Authors, mid \in AnyMessageId : DeleteMessageForMe(u, mid)

SpecGroupDelete == InitOnline /\ [][NextGroupDelete]_vars

\* a list without a repeated element
NoDuplicate(list) == Cardinality(Range(list)) = Len(list)

\* C26: a DeleteForMe of a group message by an active member other than
\* its sender puts the member's id into deletedForUsers, and leaves the list
\* as it is when the id is already there; no deletedForUsers holds an id
\* twice or holds the sender of its message.
C26_DeletedForUsersIsASet ==
    [][\A mid \in MessageIds :
        LET m == messages[mid] IN
        /\ NoDuplicate(messages'[mid].deletedForUsers)
        /\ m.sender \notin Range(messages'[mid].deletedForUsers)
        /\ \A u \in Users \ {m.sender} :
              /\ m.group # NoGroup /\ IsActiveMember(m.group, u)
              /\ HandleDeleteMessageForMe(Rank(u), mid) \/ DeleteMessageForMe(u, mid)
              => /\ Range(messages'[mid].deletedForUsers) = Range(m.deletedForUsers) \cup {u}
                 /\ u \in Range(m.deletedForUsers)
                    => messages'[mid].deletedForUsers = m.deletedForUsers
    ]_vars

\* member u1 has deleted u2's group message for itself, over the socket
C26_Witness ==
    \E mid \in MessageIds :
        /\ messages[mid].group = "g1" /\ messages[mid].sender = "u2"
        /\ messages[mid].messageType = "text"
        /\ messages[mid].deletedForUsers = <<"u1">>
        /\ ~messages[mid].deletedForSender
        /\ emitted = <<Event(1, "messageDeletedForMe", mid, FALSE, NoUser, "g1", "")>>

-----------------------------------------------------------------------------
(* System messages, under SpecTombstone. *)

\* C27: no step changes the text, isEdited or deletedForEveryone of a
\* message of kind system, whoever edits it or deletes it for everyone.
C27_SystemMessagesFixed ==
    [][\A mid \in MessageIds :
        messages[mid].messageType = "system"
        => /\ messages'[mid].text = messages[mid].text
           /\ messages'[mid].isEdited = messages[mid].isEdited
           /\ messages'[mid].deletedForEveryone = messages[mid].deletedForEveryone
    ]_vars

-----------------------------------------------------------------------------
(* Who may write to a group: u1 creates g1 with u2; u1 removes u2 or u2     *)
(* leaves; u1, u2 and u3, who never was a member, write to the group.        *)

NextGroupAccess ==
    \/ CreateGroup("u1", "g1", <<"u2">>)
    \/ RemoveMemberFromGroup("u1", "g1", "u2")
    \/ LeaveGroup("u2", "g1")
    \/ \E s \in SocketIds : SendGroupLookup(s, "g1", "hi", "text")
    \/ \E i \in Slots : SendGroupSave(i)
    \/ \E i \in Slots : SendGroupCache(i)
    \/ \E i \in Slots : SendGroupFanout(i)

SpecGroupAccess == InitOnline /\ [][NextGroupAccess]_vars

\* C28: a sendGroupMessage by a user who is not in the group's members when
\* the handler looks the group up (removed, departed or never a member) is
\* answered with an error to the caller; nothing is stored or left in flight,
\* the group and its latestMessage are unchanged, and no newMessage or
\* messageSent is emitted.
C28_NonMemberSendRejected ==
    [][\A s \in SocketIds :
        /\ ~(groups["g1"].exists /\ sockets[s].userId \in MemberIds(groups["g1"]))
        /\ SendGroupLookup(s, "g1", "hi", "text")
        => /\ ErrorsTo(s)' # {}
           /\ \A k \in 1..Len(emitted') : emitted'[k].ev = "error" /\ emitted'[k].to = s
           /\ messages' = messages
           /\ inflight' = inflight
           /\ groups' = groups
    ]_vars

\* u2, removed from g1, wrote to it and was refused; u3 may do the same
C28_Witness ==
    /\ groups["g1"].exists
    /\ "u2" \in RemovedIds(groups["g1"]) /\ "u2" \notin MemberIds(groups["g1"])
    /\ emitted = <<Event(2, "error", 0, FALSE, NoUser, NoGroup,
                         "You were removed from this group")>>
    /\ \A i \in Slots : inflight[i].pc = "idle"
    /\ groups["g1"].latestMessage.messageId = Len(messages)
    /\ messages[Len(messages)].messageType = "system"

-----------------------------------------------------------------------------
(* The history a former member reads: u1 creates g1 with u2 and adds u3;    *)
(* u1 removes a member or the member leaves, while the clock advances.       *)

NextHistory ==
    \/ Tick
    \/ CreateGroup("u1", "g1", <<"u2">>)
    \/ AddMembersToGroup("u1", "g1", <<"u3">>)
    \/ \E m \in {"u2", "u3"} : RemoveMemberFromGroup("u1", "g1", m)
    \/ \E u \in {"u2", "u3"} : LeaveGroup(u, "g1")

SpecHistory == InitOnline /\ [][NextHistory]_vars

\* the instants at which user u left grp or was removed from it
Departures(grp, u) ==
    {grp.leftMembers[i].leftAt : i \in {j \in 1..Len(grp.leftMembers) :
                                            grp.leftMembers[j].user = u}}
    \cup {grp.removedMembers[i].removedAt : i \in {j \in 1..Len(grp.removedMembers) :
                                                      grp.removedMembers[j].user = u}}

\* C29: the messages getGroupMessages selects for a user who left g1 or was
\* removed from it were all created while the user was a member: none after
\* the user's last departure (the message narrating it carries the instant
\* of the departure), and, when the user departs, none from before the
\* user's join.
C29_FormerMemberHistory ==
    [][\A u \in Users :
        /\ groups'["g1"].exists
        /\ u \notin MemberIds(groups'["g1"])
        /\ Departures(groups'["g1"], u) # {}
        => \A mid \in GetGroupMessages(u, "g1")' :
              /\ \E t \in Departures(groups'["g1"], u) : messages'[mid].createdAt <= t
              /\ groups["g1"].exists /\ u \in MemberIds(groups["g1"])
                 => messages'[mid].createdAt
                       >= groups["g1"].members[MemberIndex(groups["g1"], u)].joinedAt
    ]_vars

-----------------------------------------------------------------------------
(* The unread count of a group: u1 creates g1 with u2 and writes to it      *)
(* while the clock advances; u2 marks the group read, deletes messages for   *)
(* itself and leaves.                                                        *)

NextUnread ==
    \/ Tick
    \/ CreateGroup("u1", "g1", <<"u2">>)
    \/ FreeSlots = Slots /\ SendGroupLookup(1, "g1", "hi", "text")
    \/ \E i \in Slots : SendGroupSave(i)
    \/ \E i \in Slots : SendGroupCache(i)
    \/ \E i \in Slots : SendGroupFanout(i)
    \/ HandleMarkGroupMessagesAsRead(2, "g1")
    \/ \E mid \in AnyMessageId : HandleDeleteMessageForMe(2, mid)
    \/ LeaveGroup("u2", "g1")

SpecUnread == InitOnline /\ [][NextUnread]_vars

\* the messages of g1 that are new to member u: created after u's
\* lastReadAt, sent by another user, and not deleted for u
NewTo(u) ==
    {mid \in MessageIds :
        /\ messages[mid].group = "g1"
        /\ messages[mid].createdAt > MemberOf(groups["g1"], u).lastReadAt
        /\ messages[mid].sender # u
        /\ u \notin Range(messages[mid].deletedForUsers)}

\* C30: the unread count getUserGroups reports for g1 is, for an active
\* member, the number of messages of the group created after the member's
\* lastReadAt, sent by others and not deleted for the member, whatever the
\* member's stored unreadCount says; for a user who left or was removed and
\* for a user who never was a member it is 0.
C30_UnreadFromStore ==
    \A u \in Users :
        IF groups["g1"].exists /\ u \in MemberIds(groups["g1"])
        THEN UnreadCount("g1", u) = Cardinality(NewTo(u))
        ELSE UnreadCount("g1", u) = 0

\* u1 wrote twice to g1 after u2 last read it and u2 deleted one of the two
\* messages for itself: one message is unread, the stored count says 0
C30_Witness ==
    /\ groups["g1"].exists /\ "u2" \in MemberIds(groups["g1"])
    /\ MemberOf(groups["g1"], "u2").unreadCount = 0
    /\ UnreadCount("g1", "u2") = 1
    /\ \E mid \in MessageIds :
          /\ messages[mid].group = "g1" /\ messages[mid].sender = "u1"
          /\ messages[mid].createdAt > MemberOf(groups["g1"], "u2").lastReadAt
          /\ "u2" \in Range(messages[mid].deletedForUsers)

-----------------------------------------------------------------------------
(* groupController: getUserGroups, the lastMessage of a group for a user *)

\* isDeletedForUser: the user is in deletedForUsers, or is the sender and
\* deletedForSender is set
IsDeletedForUser(m, u) ==
    \/ u \in Range(m.deletedForUsers)
    \/ m.sender = u /\ m.deletedForSender

\* Message.findOne({group, _id: {$ne: latestMessage.messageId}, not deleted
\* for the user}).sort({createdAt: -1}).limit(1); 0 when there is none
ActualLatestMessage(g, u) ==
    LET rest == {mid \in MessageIds :
                    /\ messages[mid].group = g
                    /\ mid # groups[g].latestMessage.messageId
                    /\ ~IsDeletedForUser(messages[mid], u)}
    IN IF rest = {} THEN 0
       ELSE CHOOSE mid \in rest : \A o \in rest :
                \/ messages[o].createdAt < messages[mid].createdAt
                \/ messages[o].createdAt = messages[mid].createdAt /\ o <= mid

\* the id of the message reported as lastMessage of group g to user u, 0 for
\* null: the cached latestMessage when the user has not deleted it, the
\* newest other message the user has not deleted otherwise; the fields of
\* the answer are those of the stored message
LastMessage(g, u) ==
    LET cached == groups[g].latestMessage.messageId IN
    IF cached \notin MessageIds THEN 0
    ELSE IF ~IsDeletedForUser(messages[cached], u) THEN cached
    ELSE ActualLatestMessage(g, u)

-----------------------------------------------------------------------------
(* Two members writing to a group at once: u1 creates g1 with u2 and u3;    *)
(* u1 and u2 write to the group, their handlers suspended at the store       *)
(* calls, while the clock advances and u3 marks the group read.              *)

NextConcurrentSends ==
    \/ Tick
    \/ CreateGroup("u1", "g1", <<"u2", "u3">>)
    \/ \E s \in AuthorSockets : SendGroupLookup(s, "g1", "hi", "text")
    \/ \E i \in Slots : SendGroupSave(i)
    \/ \E i \in Slots : SendGroupCache(i)
    \/ \E i \in Slots : SendGroupFanout(i)
    \/ HandleMarkGroupMessagesAsRead(3, "g1")

SpecConcurrentSends == InitOnline /\ [][NextConcurrentSends]_vars

\* C31: every save of a group message by u1 or u2 adds one to the unread
\* count of the third member u3 when it is made after u3's lastReadAt, and
\* nothing otherwise, whatever other send is suspended at that moment; the
\* lookup, the cache write and the fan-out of a send leave the count as it
\* is. The count after two sends is therefore the same in either order of
\* their saves and fan-outs, and the same as when one send follows the other.
C31_UnreadOrderIndependent ==
    [][/\ groups["g1"].exists /\ "u3" \in MemberIds(groups["g1"])
       => /\ \A i \in Slots :
                SendGroupSave(i)
                => UnreadCount("g1", "u3")' =
                      UnreadCount("g1", "u3")
                      + (IF now > MemberOf(groups["g1"], "u3").lastReadAt THEN 1 ELSE 0)
          /\ \A i \in Slots :
                SendGroupCache(i) \/ SendGroupFanout(i)
                => UnreadCount("g1", "u3")' = UnreadCount("g1", "u3")
          /\ \A s \in AuthorSockets :
                SendGroupLookup(s, "g1", "hi", "text")
                => UnreadCount("g1", "u3")' = UnreadCount("g1", "u3")
    ]_vars

\* two sends are suspended at once, the one that looked the group up second
\* has saved its message first, and u3 has two unread messages
C31_Witness ==
    /\ inflight[1].pc \in {"cache", "fanout"}
    /\ inflight[2].pc \in {"cache", "fanout"}
    /\ inflight[1].user # inflight[2].user
    /\ inflight[2].mid < inflight[1].mid
    /\ UnreadCount("g1", "u3") = 2

-----------------------------------------------------------------------------
(* Reading a conversation: u1 and u3 write to u2, u2 writes to u1, u2        *)
(* deletes for itself and marks u1's messages read over the socket and over  *)
(* HTTP.                                                                      *)

NextMarkRead ==
    \/ HandleSendMessage(1, "u2", "hi", "text")
    \/ HandleSendMessage(2, "u1", "hi", "text")
    \/ HandleSendMessage(3, "u2", "hi", "text")
    \/ \E mid \in MessageIds : HandleDeleteMessageForMe(2, mid)
    \/ HandleMarkMessagesAsRead(2, "u1")
    \/ MarkMessagesAsRead("u2", "u1")

SpecMarkRead == InitOnline /\ [][NextMarkRead]_vars

\* the unread count of u's conversation with v, 0 when it is not listed
ConversationUnread(u, v) ==
    IF v \in DOMAIN GetConversations(u) THEN GetConversations(u)[v].unreadCount ELSE 0

\* C32: when u2 marks its conversation with u1 read, over the socket or over
\* HTTP, every message from u1 to u2 has isRead set afterwards and is
\* otherwise as before, u2's unread count for u1 is 0, and every other
\* message, those from u2 to u1 included, is exactly as before.
C32_MarkReadFrame ==
    [][HandleMarkMessagesAsRead(2, "u1") \/ MarkMessagesAsRead("u2", "u1")
       => /\ Len(messages') = Len(messages)
          /\ \A mid \in MessageIds :
                IF messages[mid].sender = "u1" /\ messages[mid].receiver = "u2"
                THEN messages'[mid] = [messages[mid] EXCEPT !.isRead = TRUE]
                ELSE messages'[mid] = messages[mid]
          /\ ConversationUnread("u2", "u1")' = 0
    ]_vars

\* u2 has just marked u1's messages read: one of them was unread before and
\* is read now, while a message from u2 to u1 is still unread
C32_Witness ==
    /\ \E k \in 1..Len(emitted) : emitted[k].ev \in {"messagesRead", "response"}
    /\ \E mid \in MessageIds :
          /\ messages[mid].sender = "u1" /\ messages[mid].receiver = "u2"
          /\ messages[mid].isRead
    /\ \E mid \in MessageIds :
          /\ messages[mid].sender = "u2" /\ messages[mid].receiver = "u1"
          /\ ~messages[mid].isRead
    /\ ConversationUnread("u1", "u2") = 1

-----------------------------------------------------------------------------
(* Conversation summaries: u1 and u2 write to each other and u3 writes to    *)
(* u2 over the clock; u2 deletes for itself over the socket and u1 over      *)
(* HTTP, and u1 deletes for everyone.                                         *)

NextConversations ==
    \/ Tick
    \/ HandleSendMessage(1, "u2", "hi", "text")
    \/ HandleSendMessage(2, "u1", "hi", "text")
    \/ HandleSendMessage(3, "u2", "hi", "text")
    \/ \E mid \in MessageIds : HandleDeleteMessageForMe(2, mid)
    \/ \E mid \in MessageIds : DeleteMessageForMe("u1", mid)
    \/ \E mid \in MessageIds : HandleDeleteMessageForEveryone(1, mid)

SpecConversations == InitOnline /\ [][NextConversations]_vars

\* the messages between u and v that u has not deleted for itself
VisibleBetween(u, v) ==
    {mid \in MessageIds :
        /\ messages[mid].receiver # NoUser
        /\ \/ messages[mid].sender = u /\ messages[mid].receiver = v
           \/ messages[mid].sender = v /\ messages[mid].receiver = u
        /\ ~(messages[mid].sender = u /\ messages[mid].deletedForSender)
        /\ ~(messages[mid].receiver = u /\ messages[mid].deletedForReceiver)}

\* C33: for every viewer u and every other user v, v is listed in u's
\* conversations exactly when some message between the two is visible to u,
\* and then the lastMessage of the entry is one of these visible messages and
\* none of them is newer; a message deleted for everyone counts as visible.
C33_DirectLastVisible ==
    \A u \in Users : \A v \in Users :
        /\ (v \in DOMAIN GetConversations(u)) = (VisibleBetween(u, v) # {})
        /\ v \in DOMAIN GetConversations(u)
           => /\ GetConversations(u)[v].lastMessage \in VisibleBetween(u, v)
              /\ \A o \in VisibleBetween(u, v) :
                    messages[o].createdAt
                      <= messages[GetConversations(u)[v].lastMessage].createdAt

\* u2 has deleted the newer of two messages for itself and u1 has deleted
\* the older one for everyone: u2's summary shows the tombstoned older
\* message, u1's summary still shows the newer one
C33_Witness ==
    /\ Len(messages) = 2
    /\ messages[1].createdAt < messages[2].createdAt
    /\ messages[1].deletedForEveryone
    /\ "u1" \in DOMAIN GetConversations("u2")
    /\ "u2" \in DOMAIN GetConversations("u1")
    /\ GetConversations("u2")["u1"].lastMessage = 1
    /\ GetConversations("u1")["u2"].lastMessage = 2

-----------------------------------------------------------------------------
(* Properties of the cached latestMessage, under SpecConcurrentSends. *)

\* the messages of group g
MessagesOf(g) == {mid \in MessageIds : messages[mid].group = g}

\* no handler is suspended
Quiescent == \A i \in HandlerSlots : inflight[i].pc = "idle"

\* C39 as stated: whenever no operation on the group is in flight, the
\* cached latestMessage.messageId names a message of the group and no
\* message of the group was created after it.
C39_CacheNamesNewest ==
    Quiescent /\ groups["g1"].exists
    => /\ groups["g1"].latestMessage.messageId \in MessagesOf("g1")
       /\ \A o \in MessagesOf("g1") :
             messages[o].createdAt
               <= messages[groups["g1"].latestMessage.messageId].createdAt

\* the messages of group g that user u has not deleted for itself
VisibleIn(g, u) == {mid \in MessagesOf(g) : ~IsDeletedForUser(messages[mid], u)}

\* C34 as stated: whenever no operation on the group is in flight, the
\* lastMessage reported to a user of the group is the newest message of the
\* group the user has not deleted for itself: none when there is no such
\* message, otherwise one of them with no newer one beside it.
C34_GroupLastVisible ==
    Quiescent /\ groups["g1"].exists
    => \A u \in Users :
         IF VisibleIn("g1", u) = {} THEN LastMessage("g1", u) = 0
         ELSE /\ LastMessage("g1", u) \in VisibleIn("g1", u)
              /\ \A o \in VisibleIn("g1", u) :
                    messages[o].createdAt <= messages[LastMessage("g1", u)].createdAt

-----------------------------------------------------------------------------
(* Properties of the admin check, under SpecMembership. *)

\* the member record of u in group g has role admin
HasAdminRole(g, u) ==
    \E i \in 1..Len(groups[g].members) :
        groups[g].members[i].user = u /\ groups[g].members[i].role = "admin"

\* C35 as stated: removeMemberFromGroup and addMembersToGroup called by a
\* user whose own member record in the group does not have role admin
\* answer with an error and leave the group's members, removedMembers and
\* leftMembers as they were.
C35_AdminOnly ==
    [][\A u \in Authors : \A m \in Users :
        /\ groups["g1"].exists
        /\ ~HasAdminRole("g1", u)
        /\ RemoveMemberFromGroup(u, "g1", m) \/ AddMembersToGroup(u, "g1", <<m>>)
        => /\ Responses' \cap {"200"} = {}
           /\ groups'["g1"].members = groups["g1"].members
           /\ groups'["g1"].removedMembers = groups["g1"].removedMembers
           /\ groups'["g1"].leftMembers = groups["g1"].leftMembers
    ]_vars

-----------------------------------------------------------------------------
(* Joining a group room from a second connection, under SpecRooms. *)

\* C36 as stated: whenever a joinGroupChat from the registered connection of
\* the active member u2 completes without an error event, that connection
\* is in the room of the group afterwards.
C36_JoinedAfterJoin ==
    [][\A s \in SocketsOf("u2") :
        /\ onlineUsers["u2"] = s
        /\ IsActiveMember("g1", "u2")
        /\ HandleJoinGroupChat(s, "g1")
        /\ ErrorsTo(s)' = {}
        => GroupRoom("g1") \in sockets'[s].rooms
    ]_vars

-----------------------------------------------------------------------------
(* Connection setup: users connect, the handler suspended at its await, and  *)
(* connections close at any point; one blocks the other in between.         *)

NextSetup ==
    \/ \E u \in Authors : ConnectStart(u)
    \/ ConnectFinish
    \/ \E s \in SocketIds : Close(s)
    \/ BlockUser("u1", "u2")
    \/ UnblockUser("u1", "u2")

\* the awaited store query of the suspended connection handler returns
SpecSetup == InitOnline /\ [][NextSetup]_vars /\ WF_vars(ConnectFinish)

\* C37 as stated: when a user has no open connection, the user is eventually
\* absent from the presence registry, or has connected again.
C37_ClosedLeavesRegistry ==
    \A u \in Users :
        (SocketsOf(u) = {}) ~> (onlineUsers[u] = 0 \/ SocketsOf(u) # {})

-----------------------------------------------------------------------------
(* The members of a group room, under SpecMembership. *)

\* C38 as stated: every connection that is in the room of the group belongs
\* to a user who is an active member of the group.
C38_RoomHoldsMembersOnly ==
    \A s \in SocketIds :
        GroupRoom("g1") \in sockets[s].rooms => IsActiveMember("g1", sockets[s].userId)
====
